---- MODULE Spec2Model ----
(***************************************************************************)
(* The Silver validation / standardization engine of the warehouse         *)
(* pipeline (scripts/silver/modded_silverval.py) as a state machine, and   *)
(* the Gold loader that reads its output (scripts/gold/modded_goldload.py).*)
(*                                                                         *)
(* Text (column names, file names, cell values) is a sequence of           *)
(* one-character strings, so that the string operations of the code        *)
(* (strip, lower, replace, startswith, "in") are computed, not assumed.    *)
(* A record set (pandas DataFrame) is [columns, rows]: the column names in *)
(* order and the rows as sequences of cells aligned with the columns.      *)
(* Timestamps of quality-log entries and console output are not modelled.  *)
(***************************************************************************)
EXTENDS Integers, Sequences, FiniteSets, TLC

VARIABLES
    pc,                            \* position of run_silver_pipeline
    bronze,                        \* the data zone's bronze_files folder (input)
    silver,                        \* the silver_files folder: output name -> record set
    bronze_files,                  \* run_silver_pipeline's local list of files to route
    cursor,                        \* number of files of bronze_files already routed
    quality_report,                \* module global quality_report
    operations_line_items_buffer,  \* module global operations_line_items_buffer
    report_csv,                    \* _silver_quality_report.csv as last persisted
    runs,                          \* calls of run_silver_pipeline started in this process
    call,                          \* one call of a validator or utility on its own
    gold                           \* the Gold loader: its position and the tables of schema gold

vars == << pc, bronze, silver, bronze_files, cursor, quality_report,
           operations_line_items_buffer, report_csv, runs, call, gold >>

\* what the Gold loader leaves alone
vars_silver == << pc, bronze, silver, bronze_files, cursor, quality_report,
                  operations_line_items_buffer, report_csv, runs, call >>

----------------------------------------------------------------------------
(* Bounds of the model *)

MaxFiles == 2      \* entries of the bronze folder in a mixed batch
MaxRows == 3       \* rows of the record set in a single-file batch
MaxRuns == 2       \* calls of run_silver_pipeline in one process

----------------------------------------------------------------------------
(* Text *)

NULL == <<"NULL">>          \* a missing cell (None / NaN / NaT); not a text


\* str.lower() on one character
LowerChar(c) ==
    CASE c = "A" -> "a" [] c = "B" -> "b" [] c = "C" -> "c" [] c = "D" -> "d"
      [] c = "E" -> "e" [] c = "F" -> "f" [] c = "G" -> "g" [] c = "H" -> "h"
      [] c = "I" -> "i" [] c = "J" -> "j" [] c = "K" -> "k" [] c = "L" -> "l"
      [] c = "M" -> "m" [] c = "N" -> "n" [] c = "O" -> "o" [] c = "P" -> "p"
      [] c = "Q" -> "q" [] c = "R" -> "r" [] c = "S" -> "s" [] c = "T" -> "t"
      [] c = "U" -> "u" [] c = "V" -> "v" [] c = "W" -> "w" [] c = "X" -> "x"
      [] c = "Y" -> "y" [] c = "Z" -> "z" [] OTHER -> c

Lower(s) == [i \in 1..Len(s) |-> LowerChar(s[i])]

\* the characters str.strip() removes
Whitespace == {" ", "\t", "\n"}

\* str.strip(): leading and trailing whitespace removed
RECURSIVE LStrip(_)
LStrip(s) == IF s # <<>> /\ Head(s) \in Whitespace THEN LStrip(Tail(s)) ELSE s

RECURSIVE RStrip(_)
RStrip(s) ==
    IF s # <<>> /\ s[Len(s)] \in Whitespace
    THEN RStrip(SubSeq(s, 1, Len(s) - 1)) ELSE s

Strip(s) == RStrip(LStrip(s))

StartsWith(s, p) == Len(p) <= Len(s) /\ SubSeq(s, 1, Len(p)) = p

EndsWith(s, p) == Len(p) <= Len(s) /\ SubSeq(s, Len(s) - Len(p) + 1, Len(s)) = p

\* Python's "sub in s"
Contains(s, sub) ==
    \E i \in 1..(Len(s) - Len(sub) + 1) : SubSeq(s, i, i + Len(sub) - 1) = sub

\* str.replace(old, new): occurrences replaced left to right, not overlapping
RECURSIVE Replace(_, _, _)
Replace(s, old, new) ==
    IF s = <<>> THEN <<>>
    ELSE IF StartsWith(s, old)
         THEN new \o Replace(SubSeq(s, Len(old) + 1, Len(s)), old, new)
         ELSE <<Head(s)>> \o Replace(Tail(s), old, new)

Digit(d) == <<SubSeq(<<"0","1","2","3","4","5","6","7","8","9">>, d + 1, d + 1)[1]>>

\* str(n) for a non-negative integer
RECURSIVE IntToStr(_)
IntToStr(n) == IF n < 10 THEN Digit(n) ELSE IntToStr(n \div 10) \o Digit(n % 10)

\* astype(str) on a cell: a missing cell prints as "nan"
AsStr(v) == IF v = NULL THEN <<"n","a","n">> ELSE v


col ==
    [ product_id |-> <<"p","r","o","d","u","c","t","_","i","d">>
    , product_name |-> <<"p","r","o","d","u","c","t","_","n","a","m","e">>
    , user_id |-> <<"u","s","e","r","_","i","d">>
    , credit_card_number |-> <<"c","r","e","d","i","t","_","c","a","r","d","_","n","u","m","b","e","r">>
    , birthdate |-> <<"b","i","r","t","h","d","a","t","e">>
    , merchant_id |-> <<"m","e","r","c","h","a","n","t","_","i","d">>
    , staff_id |-> <<"s","t","a","f","f","_","i","d">>
    , order_id |-> <<"o","r","d","e","r","_","i","d">>
    , merchantid |-> <<"m","e","r","c","h","a","n","t","i","d">>
    , staffid |-> <<"s","t","a","f","f","i","d">>
    , orderid |-> <<"o","r","d","e","r","i","d">>
    , productid |-> <<"p","r","o","d","u","c","t","i","d">>
    , prod_id |-> <<"p","r","o","d","_","i","d">>
    , sku |-> <<"s","k","u">>
    , item_id |-> <<"i","t","e","m","_","i","d">>
    , userid |-> <<"u","s","e","r","i","d">>
    , campaignid |-> <<"c","a","m","p","a","i","g","n","i","d">>
    , id |-> <<"i","d">>
    , campaign_id |-> <<"c","a","m","p","a","i","g","n","_","i","d">>
    , quantity |-> <<"q","u","a","n","t","i","t","y">>
    , qty |-> <<"q","t","y">>
    , quantity_purchased |-> <<"q","u","a","n","t","i","t","y","_","p","u","r","c","h","a","s","e","d">>
    , order_quantity |-> <<"o","r","d","e","r","_","q","u","a","n","t","i","t","y">>
    , item_quantity |-> <<"i","t","e","m","_","q","u","a","n","t","i","t","y">>
    , price |-> <<"p","r","i","c","e">>
    , unit_price |-> <<"u","n","i","t","_","p","r","i","c","e">>
    , item_name |-> <<"i","t","e","m","_","n","a","m","e">>
    , product |-> <<"p","r","o","d","u","c","t">>
    , product_desc |-> <<"p","r","o","d","u","c","t","_","d","e","s","c">>
    , item_desc |-> <<"i","t","e","m","_","d","e","s","c">>
    , discount |-> <<"d","i","s","c","o","u","n","t">>
    , discount_normalized |-> <<"d","i","s","c","o","u","n","t","_","n","o","r","m","a","l","i","z","e","d">>
    ]

tbl ==
    [ business_product |-> <<"b","u","s","i","n","e","s","s","_","p","r","o","d","u","c","t">>
    , customer_user |-> <<"c","u","s","t","o","m","e","r","_","u","s","e","r">>
    , customer_user_job |-> <<"c","u","s","t","o","m","e","r","_","u","s","e","r","_","j","o","b">>
    , customer_user_credit_card |-> <<"c","u","s","t","o","m","e","r","_","u","s","e","r","_","c","r","e","d","i","t","_","c","a","r","d">>
    , enterprise_merchant |-> <<"e","n","t","e","r","p","r","i","s","e","_","m","e","r","c","h","a","n","t">>
    , enterprise_staff |-> <<"e","n","t","e","r","p","r","i","s","e","_","s","t","a","f","f">>
    , enterprise_order_merchant_tx |-> <<"e","n","t","e","r","p","r","i","s","e","_","o","r","d","e","r","_","m","e","r","c","h","a","n","t","_","t","x">>
    , operations_orders |-> <<"o","p","e","r","a","t","i","o","n","s","_","o","r","d","e","r","s">>
    , operations_line_items |-> <<"o","p","e","r","a","t","i","o","n","s","_","l","i","n","e","_","i","t","e","m","s">>
    , operations_order_delays |-> <<"o","p","e","r","a","t","i","o","n","s","_","o","r","d","e","r","_","d","e","l","a","y","s">>
    , marketing_campaign |-> <<"m","a","r","k","e","t","i","n","g","_","c","a","m","p","a","i","g","n">>
    , marketing_transactional_campaign |-> <<"m","a","r","k","e","t","i","n","g","_","t","r","a","n","s","a","c","t","i","o","n","a","l","_","c","a","m","p","a","i","g","n">>
    ]

pat ==
    [ user_job |-> <<"u","s","e","r","_","j","o","b">>
    , user_credit_card |-> <<"u","s","e","r","_","c","r","e","d","i","t","_","c","a","r","d">>
    , user_data |-> <<"u","s","e","r","_","d","a","t","a">>
    , user_ |-> <<"u","s","e","r","_">>
    , order_with_merchant |-> <<"o","r","d","e","r","_","w","i","t","h","_","m","e","r","c","h","a","n","t">>
    , merchant_data |-> <<"m","e","r","c","h","a","n","t","_","d","a","t","a">>
    , staff_data |-> <<"s","t","a","f","f","_","d","a","t","a">>
    , parquet |-> <<".","p","a","r","q","u","e","t">>
    , enterprise_ |-> <<"e","n","t","e","r","p","r","i","s","e","_">>
    , tx_parquet |-> <<"_","t","x",".","p","a","r","q","u","e","t">>
    , order_data |-> <<"o","r","d","e","r","_","d","a","t","a">>
    , line_item |-> <<"l","i","n","e","_","i","t","e","m">>
    , order_delays |-> <<"o","r","d","e","r","_","d","e","l","a","y","s">>
    , campaign_data |-> <<"c","a","m","p","a","i","g","n","_","d","a","t","a">>
    , transactional |-> <<"t","r","a","n","s","a","c","t","i","o","n","a","l">>
    , transactional_campaign |-> <<"t","r","a","n","s","a","c","t","i","o","n","a","l","_","c","a","m","p","a","i","g","n">>
    , date |-> <<"d","a","t","e">>
    , department_us |-> <<" ","d","e","p","a","r","t","m","e","n","t","_">>
    , department_sp |-> <<" ","d","e","p","a","r","t","m","e","n","t"," ">>
    , business_ |-> <<"b","u","s","i","n","e","s","s","_">>
    , customer_management_ |-> <<"c","u","s","t","o","m","e","r","_","m","a","n","a","g","e","m","e","n","t","_">>
    , customer_ |-> <<"c","u","s","t","o","m","e","r","_">>
    , operations_ |-> <<"o","p","e","r","a","t","i","o","n","s","_">>
    , marketing_ |-> <<"m","a","r","k","e","t","i","n","g","_">>
    , glob_prefix |-> <<"e","n","t","e","r","p","r","i","s","e","_","o","r","d","e","r","_","w","i","t","h","_","m","e","r","c","h","a","n","t","_","d","a","t","a">>
    , glob_suffix |-> <<"_","b","r","o","n","z","e",".","p","a","r","q","u","e","t">>
    , percent |-> <<"p","e","r","c","e","n","t">>
    , pct |-> <<"p","c","t">>
    ]

out_file ==
    [ business_product |-> <<"b","u","s","i","n","e","s","s","_","p","r","o","d","u","c","t",".","p","a","r","q","u","e","t">>
    , customer_user |-> <<"c","u","s","t","o","m","e","r","_","u","s","e","r",".","p","a","r","q","u","e","t">>
    , customer_user_job |-> <<"c","u","s","t","o","m","e","r","_","u","s","e","r","_","j","o","b",".","p","a","r","q","u","e","t">>
    , customer_user_credit_card |-> <<"c","u","s","t","o","m","e","r","_","u","s","e","r","_","c","r","e","d","i","t","_","c","a","r","d",".","p","a","r","q","u","e","t">>
    , enterprise_merchant |-> <<"e","n","t","e","r","p","r","i","s","e","_","m","e","r","c","h","a","n","t",".","p","a","r","q","u","e","t">>
    , enterprise_staff |-> <<"e","n","t","e","r","p","r","i","s","e","_","s","t","a","f","f",".","p","a","r","q","u","e","t">>
    , enterprise_order_merchant_tx |-> <<"e","n","t","e","r","p","r","i","s","e","_","o","r","d","e","r","_","m","e","r","c","h","a","n","t","_","t","x",".","p","a","r","q","u","e","t">>
    , operations_orders |-> <<"o","p","e","r","a","t","i","o","n","s","_","o","r","d","e","r","s",".","p","a","r","q","u","e","t">>
    , operations_line_items |-> <<"o","p","e","r","a","t","i","o","n","s","_","l","i","n","e","_","i","t","e","m","s",".","p","a","r","q","u","e","t">>
    , operations_order_delays |-> <<"o","p","e","r","a","t","i","o","n","s","_","o","r","d","e","r","_","d","e","l","a","y","s",".","p","a","r","q","u","e","t">>
    , marketing_campaign |-> <<"m","a","r","k","e","t","i","n","g","_","c","a","m","p","a","i","g","n",".","p","a","r","q","u","e","t">>
    , marketing_transactional_campaign |-> <<"m","a","r","k","e","t","i","n","g","_","t","r","a","n","s","a","c","t","i","o","n","a","l","_","c","a","m","p","a","i","g","n",".","p","a","r","q","u","e","t">>
    ]

\* column names of the Silver tables the loader reads and of the gold tables
gcol ==
    [ name |-> <<"n","a","m","e">>
    , job_title |-> <<"j","o","b","_","t","i","t","l","e">>
    , job_level |-> <<"j","o","b","_","l","e","v","e","l">>
    , user_name |-> <<"u","s","e","r","_","n","a","m","e">>
    , user_job |-> <<"u","s","e","r","_","j","o","b">>
    , user_job_lvl |-> <<"u","s","e","r","_","j","o","b","_","l","v","l">>
    , creation_date |-> <<"c","r","e","a","t","i","o","n","_","d","a","t","e">>
    , street |-> <<"s","t","r","e","e","t">>
    , state |-> <<"s","t","a","t","e">>
    , city |-> <<"c","i","t","y">>
    , country |-> <<"c","o","u","n","t","r","y">>
    , gender |-> <<"g","e","n","d","e","r">>
    , device_address |-> <<"d","e","v","i","c","e","_","a","d","d","r","e","s","s">>
    , user_type |-> <<"u","s","e","r","_","t","y","p","e">>
    , product_type |-> <<"p","r","o","d","u","c","t","_","t","y","p","e">>
    , product_unit_price |-> <<"p","r","o","d","u","c","t","_","u","n","i","t","_","p","r","i","c","e">>
    , merchant_creation_date |-> <<"m","e","r","c","h","a","n","t","_","c","r","e","a","t","i","o","n","_","d","a","t","e">>
    , merchant_name |-> <<"m","e","r","c","h","a","n","t","_","n","a","m","e">>
    , merchant_street |-> <<"m","e","r","c","h","a","n","t","_","s","t","r","e","e","t">>
    , merchant_state |-> <<"m","e","r","c","h","a","n","t","_","s","t","a","t","e">>
    , merchant_city |-> <<"m","e","r","c","h","a","n","t","_","c","i","t","y">>
    , merchant_country |-> <<"m","e","r","c","h","a","n","t","_","c","o","u","n","t","r","y">>
    , merchant_contact_no |-> <<"m","e","r","c","h","a","n","t","_","c","o","n","t","a","c","t","_","n","o">>
    , contact_number |-> <<"c","o","n","t","a","c","t","_","n","u","m","b","e","r">>
    , staff_name |-> <<"s","t","a","f","f","_","n","a","m","e">>
    , staff_job_lvl |-> <<"s","t","a","f","f","_","j","o","b","_","l","v","l">>
    , staff_creation_date |-> <<"s","t","a","f","f","_","c","r","e","a","t","i","o","n","_","d","a","t","e">>
    , staff_street |-> <<"s","t","a","f","f","_","s","t","r","e","e","t">>
    , staff_state |-> <<"s","t","a","f","f","_","s","t","a","t","e">>
    , staff_city |-> <<"s","t","a","f","f","_","c","i","t","y">>
    , staff_country |-> <<"s","t","a","f","f","_","c","o","u","n","t","r","y">>
    , staff_contact_no |-> <<"s","t","a","f","f","_","c","o","n","t","a","c","t","_","n","o">>
    , campaign_name |-> <<"c","a","m","p","a","i","g","n","_","n","a","m","e">>
    , campaign_description |-> <<"c","a","m","p","a","i","g","n","_","d","e","s","c","r","i","p","t","i","o","n">>
    , campaign_discount |-> <<"c","a","m","p","a","i","g","n","_","d","i","s","c","o","u","n","t">>
    , card_type |-> <<"c","a","r","d","_","t","y","p","e">>
    , bank_name |-> <<"b","a","n","k","_","n","a","m","e">>
    , expiry_date |-> <<"e","x","p","i","r","y","_","d","a","t","e">>
    , date_key |-> <<"d","a","t","e","_","k","e","y">>
    , full_date |-> <<"f","u","l","l","_","d","a","t","e">>
    , year |-> <<"y","e","a","r">>
    , quarter |-> <<"q","u","a","r","t","e","r">>
    , month |-> <<"m","o","n","t","h">>
    , day |-> <<"d","a","y">>
    , order_line_id |-> <<"o","r","d","e","r","_","l","i","n","e","_","i","d">>
    , order_line_key |-> <<"o","r","d","e","r","_","l","i","n","e","_","k","e","y">>
    , user_key |-> <<"u","s","e","r","_","k","e","y">>
    , product_key |-> <<"p","r","o","d","u","c","t","_","k","e","y">>
    , merchant_key |-> <<"m","e","r","c","h","a","n","t","_","k","e","y">>
    , staff_key |-> <<"s","t","a","f","f","_","k","e","y">>
    , campaign_key |-> <<"c","a","m","p","a","i","g","n","_","k","e","y">>
    , credit_card_key |-> <<"c","r","e","d","i","t","_","c","a","r","d","_","k","e","y">>
    , order_date_key |-> <<"o","r","d","e","r","_","d","a","t","e","_","k","e","y">>
    , line_amount |-> <<"l","i","n","e","_","a","m","o","u","n","t">>
    , transaction_date |-> <<"t","r","a","n","s","a","c","t","i","o","n","_","d","a","t","e">>
    , order_date |-> <<"o","r","d","e","r","_","d","a","t","e">>
    ]

----------------------------------------------------------------------------
(* Record sets (pandas DataFrame) *)

DataFrame(columns, rows) == [columns |-> columns, rows |-> rows]

Range(s) == {s[i] : i \in 1..Len(s)}

HasCol(df, c) == \E i \in 1..Len(df.columns) : df.columns[i] = c

\* "c in df.columns" holds and c names more than one column: df[c] is then a
\* DataFrame, not a Series
Ambiguous(df, c) == Cardinality({i \in 1..Len(df.columns) : df.columns[i] = c}) > 1

HasDuplicateColumns(df) ==
    \E i, j \in 1..Len(df.columns) : i # j /\ df.columns[i] = df.columns[j]

\* the members of a set of positions, in increasing order
SortedIdx(S) ==
    [j \in 1..Cardinality(S) |->
        CHOOSE i \in S : Cardinality({x \in S : x < i}) = j - 1]

\* the positions of the columns whose name is in subset, in column order
ColIdxs(df, subset) ==
    SortedIdx({i \in 1..Len(df.columns) : df.columns[i] \in subset})

\* the position of the (first) column named c
ColIdx(df, c) == CHOOSE i \in 1..Len(df.columns) :
                    df.columns[i] = c /\ \A j \in 1..(i - 1) : df.columns[j] # c

\* df[c] for a column present once
Column(df, c) == [r \in 1..Len(df.rows) |-> df.rows[r][ColIdx(df, c)]]

\* the cells of a row under the columns at positions ix
Cells(row, ix) == [k \in 1..Len(ix) |-> row[ix[k]]]

TakeRows(df, ix) == DataFrame(df.columns, [k \in 1..Len(ix) |-> df.rows[ix[k]]])

\* rows without a missing cell under the columns at positions ix
NotNullAt(df, ix) ==
    LET Keep(r) == \A k \in 1..Len(ix) : df.rows[r][ix[k]] # NULL
    IN  TakeRows(df, SortedIdx({r \in 1..Len(df.rows) : Keep(r)}))

\* df.dropna(subset=...) on a record set that has the columns
DropNa(df, subset) == NotNullAt(df, ColIdxs(df, subset))

\* df.duplicated(...): row r repeats, under the columns at positions ix, the
\* cells of an earlier row (missing cells compare equal to each other)
DuplicatedAt(df, ix, r) ==
    \E q \in 1..(r - 1) : Cells(df.rows[q], ix) = Cells(df.rows[r], ix)

FirstsAt(df, ix) ==
    LET Keep(r) == ~DuplicatedAt(df, ix, r)
    IN  TakeRows(df, SortedIdx({r \in 1..Len(df.rows) : Keep(r)}))

\* df.drop_duplicates(subset=..., keep="first") on a record set that has the
\* columns
DropDuplicates(df, subset) == FirstsAt(df, ColIdxs(df, subset))

\* df.duplicated(..., keep=False).sum(): every row of a repeated key counts
DupCountAll(df, ix) ==
    Cardinality({r \in 1..Len(df.rows) :
                    \E q \in 1..Len(df.rows) :
                        q # r /\ Cells(df.rows[q], ix) = Cells(df.rows[r], ix)})

DupCountAt(df, ix) == Cardinality({r \in 1..Len(df.rows) : DuplicatedAt(df, ix, r)})

\* df.duplicated(subset=...).sum()
DupCount(df, subset) == DupCountAt(df, ColIdxs(df, subset))

\* df[c] = values: the column is replaced in place, or appended as the last one
SetCol(df, c, values) ==
    IF HasCol(df, c)
    THEN DataFrame(df.columns,
                   [r \in 1..Len(df.rows) |->
                       [i \in 1..Len(df.columns) |->
                           IF df.columns[i] = c THEN values[r] ELSE df.rows[r][i]]])
    ELSE DataFrame(Append(df.columns, c),
                   [r \in 1..Len(df.rows) |-> Append(df.rows[r], values[r])])

\* df.rename(columns=rename_map): rename_map is a function on a set of names
rename(df, rename_map) ==
    DataFrame([i \in 1..Len(df.columns) |->
                  IF df.columns[i] \in DOMAIN rename_map
                  THEN rename_map[df.columns[i]] ELSE df.columns[i]],
              df.rows)

\* the rename map built from <<alias, canonical>> pairs
RenameMap(used) == [a \in {p[1] : p \in used} |-> (CHOOSE p \in used : p[1] = a)[2]]

\* the names of s without repetition, in order of first appearance
Distinct(s) ==
    LET First(i) == \A j \in 1..(i - 1) : s[j] # s[i]
    IN  Cells(s, SortedIdx({r \in 1..Len(s) : First(r)}))

RECURSIVE Flatten(_)
Flatten(ss) == IF ss = <<>> THEN <<>> ELSE Head(ss) \o Flatten(Tail(ss))

----------------------------------------------------------------------------
(* What a function of the code works on: the record set in its hands (df),  *)
(* the silver folder, the two module globals, and how it ended: exc is the  *)
(* exception that is propagating (NoExc: none), returned says that the      *)
(* enclosing cleaner has returned.  A step does nothing once either holds.  *)

NoExc == "none"

Ctx(df, folder, qr, buf) ==
    [df |-> df, silver |-> folder, qr |-> qr, buf |-> buf,
     exc |-> NoExc, returned |-> FALSE]

Live(c) == c.exc = NoExc /\ ~c.returned

Raise(c, e) == [c EXCEPT !.exc = e]

Return(c) == [c EXCEPT !.returned = TRUE]

WithDf(c, df) == [c EXCEPT !.df = df]

----------------------------------------------------------------------------
(* Quality log *)

\* a log that holds only the entry recorded last
log_latest(c, table, issue_type, details, severity) ==
    [c EXCEPT !.qr = <<[table |-> table, issue_type |-> issue_type,
                        details |-> details, severity |-> severity]>>]

\* quality_report.append({...}); the timestamp of an entry is left out
log_quality(c, table, issue_type, details, severity) ==
    [c EXCEPT !.qr = Append(@, [table |-> table, issue_type |-> issue_type,
                                details |-> details, severity |-> severity])]

\* the rows save_quality_report writes; nothing is written for an empty log
save_quality_report(qr, csv) == IF qr = <<>> THEN csv ELSE [written |-> TRUE, rows |-> qr]

----------------------------------------------------------------------------
(* Generic transform utilities and validators *)

\* the replacements made before the trimming
replace_then_strip(name) ==
    Lower(Strip(Replace(Replace(name, <<" ">>, <<"_">>), <<"-">>, <<"_">>)))

\* .str.strip().str.lower().str.replace(" ", "_").str.replace("-", "_")
StandardName(name) ==
    Replace(Replace(Lower(Strip(name)), <<" ">>, <<"_">>), <<"-">>, <<"_">>)

standardize(df) ==
    DataFrame([i \in 1..Len(df.columns) |-> StandardName(df.columns[i])], df.rows)

MissingCols(df, required_cols) == SelectSeq(required_cols, LAMBDA x : ~HasCol(df, x))

\* a validator that logs one entry for each missing column
RECURSIVE log_each_missing(_, _, _)
log_each_missing(c, required_cols, table_name) ==
    IF required_cols = <<>> THEN c
    ELSE log_each_missing(
             IF Live(c) /\ ~HasCol(c.df, Head(required_cols))
             THEN log_quality(c, table_name, "MISSING_COLUMNS",
                              [missing |-> <<Head(required_cols)>>], "ERROR")
             ELSE c,
             Tail(required_cols), table_name)

validate_required_columns(c, required_cols, table_name) ==
    IF Live(c) /\ MissingCols(c.df, required_cols) # <<>>
    THEN log_quality(c, table_name, "MISSING_COLUMNS",
                     [missing |-> MissingCols(c.df, required_cols)], "ERROR")
    ELSE c

NullCount(df, x) == Cardinality({r \in 1..Len(df.rows) : df.rows[r][ColIdx(df, x)] = NULL})

\* round(1000 * num / den) to the nearest integer, a tie going to the even
\* one: the tenths that "{x:.1f}" prints for x = num / den * 100
HalfEven(q, twice_rest, den) ==
    IF twice_rest > den \/ (twice_rest = den /\ q % 2 = 1) THEN q + 1 ELSE q

Tenths(num, den) == HalfEven((1000 * num) \div den, 2 * ((1000 * num) % den), den)

FixedOne(tenths) == IntToStr(tenths \div 10) \o <<".">> \o Digit(tenths % 10)

\* f"{pct:.1f}" for pct = (null_count / total) * 100
format_pct(null_count, total) == FixedOne(Tenths(null_count, total))

\* one turn of check_nulls' loop; "if null_count > 0" raises ValueError when
\* df[col] is a DataFrame (a column name held twice)
check_nulls_col(c, x, table_name) ==
    IF ~Live(c) \/ ~HasCol(c.df, x) THEN c
    ELSE IF Ambiguous(c.df, x) THEN Raise(c, "ValueError")
    ELSE IF NullCount(c.df, x) > 0
    THEN log_quality(c, table_name, "NULL_VALUES",
                     [col |-> x, null_count |-> NullCount(c.df, x),
                      total |-> Len(c.df.rows),
                      pct |-> format_pct(NullCount(c.df, x), Len(c.df.rows))],
                     "WARNING")
    ELSE c

RECURSIVE check_nulls(_, _, _)
check_nulls(c, key_cols, table_name) ==
    IF key_cols = <<>> THEN c
    ELSE check_nulls(check_nulls_col(c, Head(key_cols), table_name),
                     Tail(key_cols), table_name)

\* the count check_duplicates returns (its callers drop it)
dup_count(df, key_cols) ==
    IF \A i \in 1..Len(key_cols) : HasCol(df, key_cols[i])
    THEN DupCount(df, Range(key_cols)) ELSE 0

check_duplicates(c, key_cols, table_name) ==
    IF Live(c) /\ dup_count(c.df, key_cols) > 0
    THEN log_quality(c, table_name, "DUPLICATES",
                     [dup_count |-> dup_count(c.df, key_cols), key_cols |-> key_cols],
                     "WARNING")
    ELSE c

IsDigit(ch) == ch \in {"0","1","2","3","4","5","6","7","8","9"}

\* pd.to_datetime(..., errors="coerce") keeps a cell that reads as a date and
\* turns any other text into NaT; the dates of the model are written YYYY-MM-DD
ParsesAsDatetime(v) ==
    /\ Len(v) = 10
    /\ v[5] = "-" /\ v[8] = "-"
    /\ \A i \in {1, 2, 3, 4, 6, 7, 9, 10} : IsDigit(v[i])

\* pd.to_numeric(..., errors="coerce") keeps a cell made of digits
ParsesAsNumeric(v) == v # <<>> /\ \A i \in 1..Len(v) : IsDigit(v[i])

Coerce(v, expected_type) ==
    IF v = NULL THEN NULL
    ELSE IF expected_type = "datetime"
         THEN (IF ParsesAsDatetime(v) THEN v ELSE NULL)
         ELSE (IF ParsesAsNumeric(v) THEN v ELSE NULL)

\* the cells of column x that the coercion turns into missing ones
InvalidCount(df, x, expected_type) ==
    Cardinality({r \in 1..Len(df.rows) :
                    /\ df.rows[r][ColIdx(df, x)] # NULL
                    /\ Coerce(df.rows[r][ColIdx(df, x)], expected_type) = NULL})

CoerceCol(df, x, expected_type) ==
    SetCol(df, x, [r \in 1..Len(df.rows) |-> Coerce(df.rows[r][ColIdx(df, x)], expected_type)])

\* one turn of validate_data_types' loop
validate_data_type(c, x, expected_type, table_name) ==
    IF ~Live(c) \/ ~HasCol(c.df, x) \/ expected_type \notin {"datetime", "numeric"} THEN c
    ELSE IF Ambiguous(c.df, x) THEN Raise(c, "ValueError")
    ELSE IF InvalidCount(c.df, x, expected_type) > 0
    THEN log_quality(WithDf(c, CoerceCol(c.df, x, expected_type)), table_name,
                     IF expected_type = "datetime"
                     THEN "INVALID_DATETIME" ELSE "INVALID_NUMERIC",
                     [col |-> x, invalid |-> InvalidCount(c.df, x, expected_type)],
                     "WARNING")
    ELSE WithDf(c, CoerceCol(c.df, x, expected_type))

\* type_map is a sequence of <<column, expected type>>
RECURSIVE validate_data_types(_, _, _)
validate_data_types(c, type_map, table_name) ==
    IF type_map = <<>> THEN c
    ELSE validate_data_types(
             validate_data_type(c, Head(type_map)[1], Head(type_map)[2], table_name),
             Tail(type_map), table_name)

\* flag_errors only prints: the number of ERROR entries it reports
flag_errors(qr, table_name) ==
    Cardinality({i \in 1..Len(qr) :
                    qr[i].table = table_name /\ qr[i].severity = "ERROR"})

\* df.to_parquet(<silver_folder>/out): the engine refuses a record set that
\* holds a column name twice
to_parquet(c, out) ==
    IF ~Live(c) THEN c
    ELSE IF HasDuplicateColumns(c.df) THEN Raise(c, "ValueError")
    ELSE [c EXCEPT !.silver = (out :> c.df) @@ @]

\* df.dropna(subset=...) / df.drop_duplicates(subset=...) in a cleaner: a
\* name of subset that is no column raises KeyError; drop_duplicates returns
\* an empty record set as it is, before it looks at subset
dropna(c, subset) ==
    IF ~Live(c) THEN c
    ELSE IF MissingCols(c.df, subset) # <<>> THEN Raise(c, "KeyError")
    ELSE WithDf(c, DropNa(c.df, Range(subset)))

drop_duplicates(c, subset) ==
    IF ~Live(c) \/ c.df.rows = <<>> \/ c.df.columns = <<>> THEN c
    ELSE IF MissingCols(c.df, subset) # <<>> THEN Raise(c, "KeyError")
    ELSE WithDf(c, DropDuplicates(c.df, Range(subset)))


----------------------------------------------------------------------------
(* Department cleaners: clean_*(c, file) for the record set read from the   *)
(* bronze file (c.df) and the normalized file name.  The statements of a    *)
(* cleaner are applied one after the other, c1 being what the first leaves, *)
(* c2 the second, and so on.                                                *)

\* the first alternative name that is a column of df, <<>> when none is
FirstPresent(df, alts) ==
    IF SelectSeq(alts, LAMBDA a : HasCol(df, a)) = <<>> THEN <<>>
    ELSE Head(SelectSeq(alts, LAMBDA a : HasCol(df, a)))

\* re: the first run of digits of s (str.extract(r"(\d+)") / re.search), NULL
\* when s holds no digit
DigitRunFrom(s, a) ==
    SubSeq(s, a, CHOOSE j \in a..Len(s) :
                    /\ \A k \in a..j : IsDigit(s[k])
                    /\ (j = Len(s) \/ ~IsDigit(s[j + 1])))

FirstDigitRun(s) ==
    IF \A i \in 1..Len(s) : ~IsDigit(s[i]) THEN NULL
    ELSE DigitRunFrom(s, CHOOSE i \in 1..Len(s) :
                             IsDigit(s[i]) /\ \A j \in 1..(i - 1) : ~IsDigit(s[j]))

\* a column read from parquet is numeric when each of its cells is a number
\* or missing
is_numeric_dtype(df, x) ==
    \A r \in 1..Len(df.rows) :
        df.rows[r][ColIdx(df, x)] = NULL \/ ParsesAsNumeric(df.rows[r][ColIdx(df, x)])

\* df[target] = values, the values made from df[source]; a source name held
\* twice makes the right-hand side a DataFrame and the assignment raises
\* ValueError
assign_from(c, target, source, values) ==
    IF ~Live(c) THEN c
    ELSE IF Ambiguous(c.df, source) THEN Raise(c, "ValueError")
    ELSE WithDf(c, SetCol(c.df, target, values))

\* df[target] = None / pd.NA
assign_missing(c, target) ==
    IF ~Live(c) THEN c
    ELSE WithDf(c, SetCol(c.df, target, [r \in 1..Len(c.df.rows) |-> NULL]))

quantity_alts == <<col.qty, col.quantity_purchased, col.order_quantity, col.item_quantity>>

\* "if quantity not in df.columns: for alt in [...]: ... break"
map_quantity_alias(c) ==
    IF ~Live(c) \/ HasCol(c.df, col.quantity) \/ FirstPresent(c.df, quantity_alts) = <<>>
    THEN c
    ELSE assign_from(c, col.quantity, FirstPresent(c.df, quantity_alts),
                     Column(c.df, FirstPresent(c.df, quantity_alts)))

ExtractQuantity(v) == FirstDigitRun(AsStr(v))

\* clean_quantity_column after the alias mapping
coerce_quantity(c) ==
    IF ~Live(c) THEN c
    ELSE IF ~HasCol(c.df, col.quantity) THEN assign_missing(c, col.quantity)
    ELSE IF Ambiguous(c.df, col.quantity) THEN Raise(c, "AttributeError")
    ELSE IF is_numeric_dtype(c.df, col.quantity) THEN c
    ELSE assign_from(c, col.quantity, col.quantity,
                     [r \in 1..Len(c.df.rows) |->
                         ExtractQuantity(Column(c.df, col.quantity)[r])])

clean_quantity_column(c) == coerce_quantity(map_quantity_alias(c))

\* "if <key> in df.columns:" followed by the removal of rows with a missing
\* key and of rows that repeat the key
drop_null_and_duplicate_keys(c, guard_col, na_subset, dup_subset) ==
    IF ~Live(c) \/ ~HasCol(c.df, guard_col) THEN c
    ELSE drop_duplicates(dropna(c, na_subset), dup_subset)

clean_business(c, file) ==
    LET table_name == tbl.business_product
        c1 == WithDf(c, standardize(c.df))
        c2 == validate_required_columns(c1, <<col.product_id, col.product_name>>, table_name)
        c3 == check_nulls(c2, <<col.product_id>>, table_name)
        c4 == drop_null_and_duplicate_keys(c3, col.product_id,
                                           <<col.product_id>>, <<col.product_id>>)
        c5 == check_duplicates(c4, <<col.product_id>>, table_name)
    IN  to_parquet(c5, out_file.business_product)

customer_table(file) ==
    IF Contains(file, pat.user_job) THEN tbl.customer_user_job
    ELSE IF Contains(file, pat.user_credit_card) THEN tbl.customer_user_credit_card
    ELSE IF Contains(file, pat.user_data) \/ Contains(file, pat.user_) THEN tbl.customer_user
    ELSE <<>>

customer_key_cols(table_name) ==
    IF table_name = tbl.customer_user_credit_card
    THEN <<col.user_id, col.credit_card_number>> ELSE <<col.user_id>>

customer_out(table_name) ==
    IF table_name = tbl.customer_user_job THEN out_file.customer_user_job
    ELSE IF table_name = tbl.customer_user_credit_card
         THEN out_file.customer_user_credit_card
    ELSE out_file.customer_user

\* "if birthdate in df.columns and table_name == customer_user"
customer_birthdate(c, table_name) ==
    IF Live(c) /\ HasCol(c.df, col.birthdate) /\ table_name = tbl.customer_user
    THEN validate_data_types(c, << <<col.birthdate, "datetime">> >>, table_name)
    ELSE c

\* clean_customer once the table is known
clean_customer_table(c, table_name) ==
    LET c1 == validate_required_columns(c, <<col.user_id>>, table_name)
        c2 == check_nulls(c1, <<col.user_id>>, table_name)
        \* subset_keys is key_cols, or user_id for customer_user(_job): the same
        c3 == drop_null_and_duplicate_keys(c2, col.user_id, <<col.user_id>>,
                                           customer_key_cols(table_name))
        c4 == check_duplicates(c3, customer_key_cols(table_name), table_name)
        c5 == customer_birthdate(c4, table_name)
    IN  to_parquet(c5, customer_out(table_name))

clean_customer(c, file) ==
    IF customer_table(file) = <<>> THEN Return(c)
    ELSE clean_customer_table(WithDf(c, standardize(c.df)), customer_table(file))

\* the rename map of the transaction branch and of the combiner: an alias is
\* renamed whenever it is a column
enterprise_rename_map(df) ==
    RenameMap({p \in { <<col.merchantid, col.merchant_id>>,
                       <<col.staffid, col.staff_id>>,
                       <<col.orderid, col.order_id>> } : HasCol(df, p[1])})

enterprise_table(file) ==
    IF Contains(file, pat.order_with_merchant) THEN tbl.enterprise_order_merchant_tx
    ELSE IF Contains(file, pat.merchant_data) THEN tbl.enterprise_merchant
    ELSE IF Contains(file, pat.staff_data) THEN tbl.enterprise_staff
    ELSE <<>>

\* the per-part output name of the transaction branch
enterprise_tx_out(file) ==
    pat.enterprise_
        \o Replace(Replace(file, pat.parquet, <<>>), pat.enterprise_, <<>>)
        \o pat.tx_parquet

enterprise_order_merchant_tx(c, file) ==
    LET table_name == tbl.enterprise_order_merchant_tx
        key_cols == <<col.order_id, col.merchant_id>>
        c1 == WithDf(c, rename(c.df, enterprise_rename_map(c.df)))
        c2 == validate_required_columns(c1, key_cols, table_name)
        c3 == check_nulls(c2, key_cols, table_name)
        c4 == drop_null_and_duplicate_keys(c3, col.order_id,
                                           <<col.order_id>>, <<col.order_id>>)
        c5 == check_duplicates(c4, <<col.order_id>>, table_name)
    IN  to_parquet(c5, enterprise_tx_out(file))

\* the merchant and staff dimensions
enterprise_dimension(c, table_name, key_cols, out) ==
    LET c1 == validate_required_columns(c, key_cols, table_name)
        c2 == check_nulls(c1, key_cols, table_name)
        c3 == drop_null_and_duplicate_keys(c2, key_cols[1], key_cols, key_cols)
        c4 == check_duplicates(c3, key_cols, table_name)
    IN  to_parquet(c4, out)

clean_enterprise_table(c, file, table_name) ==
    IF table_name = tbl.enterprise_order_merchant_tx
    THEN enterprise_order_merchant_tx(c, file)
    ELSE IF table_name = tbl.enterprise_merchant
    THEN enterprise_dimension(c, table_name, <<col.merchant_id>>,
                              out_file.enterprise_merchant)
    ELSE IF table_name = tbl.enterprise_staff
    THEN enterprise_dimension(c, table_name, <<col.staff_id>>, out_file.enterprise_staff)
    ELSE Return(c)

clean_enterprise(c, file) ==
    clean_enterprise_table(WithDf(c, standardize(c.df)), file, enterprise_table(file))


_rename_operations_columns(df) ==
    rename(df, RenameMap({p \in { <<col.orderid, col.order_id>>,
                                  <<col.productid, col.product_id>>,
                                  <<col.prod_id, col.product_id>>,
                                  <<col.sku, col.product_id>>,
                                  <<col.item_id, col.product_id>>,
                                  <<col.userid, col.user_id>> } :
                             HasCol(df, p[1]) /\ ~HasCol(df, p[2])}))

\* "if order_id in df.columns: df.dropna(subset=[order_id])"
orders_dropna(c) ==
    IF ~Live(c) \/ ~HasCol(c.df, col.order_id) THEN c ELSE dropna(c, <<col.order_id>>)

\* type_map of the orders branch: every column whose name contains "date"
date_type_map(df) ==
    LET date_cols == Distinct(SelectSeq(df.columns, LAMBDA x : Contains(x, pat.date)))
    IN  [i \in 1..Len(date_cols) |-> <<date_cols[i], "datetime">>]

orders_dates(c) ==
    IF ~Live(c) THEN c
    ELSE validate_data_types(c, date_type_map(c.df), tbl.operations_orders)

operations_orders(c) ==
    LET table_name == tbl.operations_orders
        key_cols == <<col.order_id>>
        c1 == validate_required_columns(c, key_cols, table_name)
        c2 == check_nulls(c1, key_cols, table_name)
        c3 == orders_dropna(c2)
        c4 == orders_dates(c3)
        c5 == check_duplicates(c4, key_cols, table_name)
    IN  to_parquet(c5, out_file.operations_orders)

\* "if price not in df.columns and unit_price in df.columns"
map_price_alias(c) ==
    IF Live(c) /\ ~HasCol(c.df, col.price) /\ HasCol(c.df, col.unit_price)
    THEN assign_from(c, col.price, col.unit_price, Column(c.df, col.unit_price))
    ELSE c

product_name_alts == <<col.item_name, col.product, col.product_desc, col.item_desc>>

map_product_name_alias(c) ==
    IF ~Live(c) \/ HasCol(c.df, col.product_name)
          \/ FirstPresent(c.df, product_name_alts) = <<>>
    THEN c
    ELSE assign_from(c, col.product_name, FirstPresent(c.df, product_name_alts),
                     [r \in 1..Len(c.df.rows) |->
                         AsStr(Column(c.df, FirstPresent(c.df, product_name_alts))[r])])

\* "try: prod_dim = pd.read_parquet(...) except: log_quality(...); return"
load_product_dim(c, table_name) ==
    IF ~Live(c) \/ out_file.business_product \in DOMAIN c.silver THEN c
    ELSE Return(log_quality(c, table_name, "PRODUCT_DIM_LOAD_ERROR",
                            [error |-> "FileNotFoundError"], "ERROR"))

\* the rows of the left join for row r of df: one per product of that name,
\* or one with a missing product_id
MergeRows(row, name, prod_dim) ==
    LET Hit(q) == prod_dim.rows[q][ColIdx(prod_dim, col.product_name)] = name
        ix == SortedIdx({q \in 1..Len(prod_dim.rows) : Hit(q)})
    IN  IF ix = <<>> THEN <<Append(row, NULL)>>
        ELSE [k \in 1..Len(ix) |->
                 Append(row, prod_dim.rows[ix[k]][ColIdx(prod_dim, col.product_id)])]

\* df.merge(prod_dim[["product_id", "product_name"]], on="product_name",
\*          how="left"), for a df without product_id
merge_product(df, prod_dim) ==
    DataFrame(Append(df.columns, col.product_id),
              Flatten([r \in 1..Len(df.rows) |->
                          MergeRows(df.rows[r],
                                    df.rows[r][ColIdx(df, col.product_name)], prod_dim)]))

\* product_id = order_id as text + "_" + the row's zero-based index
synthetic_product_id(df) ==
    SetCol(df, col.product_id,
           [r \in 1..Len(df.rows) |->
               AsStr(df.rows[r][ColIdx(df, col.order_id)]) \o <<"_">> \o IntToStr(r - 1)])

\* "if product_id not in df.columns:" with prod_dim the product dim just read
resolve_product_id(c, prod_dim) ==
    IF ~Live(c) \/ HasCol(c.df, col.product_id) THEN c
    ELSE IF HasCol(c.df, col.product_name) /\ HasCol(prod_dim, col.product_name)
    THEN (IF ~HasCol(prod_dim, col.product_id) THEN Raise(c, "KeyError")
          ELSE IF Ambiguous(c.df, col.product_name) THEN Raise(c, "ValueError")
          ELSE WithDf(c, merge_product(c.df, prod_dim)))
    ELSE IF HasCol(c.df, col.order_id) /\ HasCol(c.df, col.quantity)
              /\ HasCol(c.df, col.price)
    THEN (IF Ambiguous(c.df, col.order_id) THEN Raise(c, "ValueError")
          ELSE WithDf(c, synthetic_product_id(c.df)))
    ELSE Return(c)

product_dim(c) ==
    IF out_file.business_product \in DOMAIN c.silver
    THEN standardize(c.silver[out_file.business_product])
    ELSE DataFrame(<<>>, <<>>)

\* "if set(key_cols).issubset(df.columns):" dropna, drop_duplicates
line_items_drop(c, key_cols) ==
    IF ~Live(c) \/ MissingCols(c.df, key_cols) # <<>> THEN c
    ELSE drop_duplicates(dropna(c, key_cols), key_cols)

\* "df.reset_index(...); operations_line_items_buffer.append(df)"
buffer_append(c) == IF ~Live(c) THEN c ELSE [c EXCEPT !.buf = Append(@, c.df)]

operations_line_items(c) ==
    LET table_name == tbl.operations_line_items
        key_cols == <<col.order_id, col.product_id>>
        c1 == map_quantity_alias(c)
        c2 == map_price_alias(c1)
        c3 == map_product_name_alias(c2)
        c4 == load_product_dim(c3, table_name)
        c5 == resolve_product_id(c4, product_dim(c))
        c6 == clean_quantity_column(c5)
        c7 == validate_required_columns(c6, key_cols, table_name)
        c8 == check_nulls(c7, key_cols, table_name)
        c9 == line_items_drop(c8, key_cols)
        c10 == check_duplicates(c9, key_cols, table_name)
    IN  buffer_append(c10)

operations_order_delays(c) ==
    LET c1 == IF HasCol(c.df, col.orderid) /\ ~HasCol(c.df, col.order_id)
              THEN WithDf(c, rename(c.df, RenameMap({<<col.orderid, col.order_id>>})))
              ELSE c
        c2 == drop_duplicates(c1, c1.df.columns)
    IN  to_parquet(c2, out_file.operations_order_delays)

clean_operations_branch(c, file) ==
    IF Contains(file, pat.order_data) THEN operations_orders(c)
    ELSE IF Contains(file, pat.line_item) THEN operations_line_items(c)
    ELSE IF Contains(file, pat.order_delays) THEN operations_order_delays(c)
    ELSE Return(c)

clean_operations(c, file) ==
    clean_operations_branch(WithDf(c, _rename_operations_columns(standardize(c.df))), file)

_rename_marketing_columns(df, file) ==
    rename(df, RenameMap({p \in { <<col.campaignid, col.campaign_id>>,
                                  <<col.id, col.campaign_id>>,
                                  <<col.orderid, col.order_id>>,
                                  <<col.userid, col.user_id>> } :
                             /\ HasCol(df, p[1]) /\ ~HasCol(df, p[2])
                             /\ (p[1] = col.id => Contains(file, pat.campaign_data))}))

\* re.sub(r"[^0-9%]", "", s)
KeepDigitsAndPercent(s) == SelectSeq(s, LAMBDA ch : IsDigit(ch) \/ ch = "%")

\* the label after strip, lower, percent/pct -> %, and the removal of all
\* characters but digits and %
DiscountText(v) ==
    KeepDigitsAndPercent(
        Replace(Replace(Lower(Strip(AsStr(v))), pat.percent, <<"%">>), pat.pct, <<"%">>))

\* a label that is the digits alone
bare_digits(num) == num

\* return f"{num}%", None when re.search found no digit
DigitsToLabel(num) == IF num = NULL THEN NULL ELSE num \o <<"%">>

normalize_discount_label(v) ==
    IF v = NULL \/ DiscountText(v) = <<>> THEN NULL
    ELSE DigitsToLabel(FirstDigitRun(DiscountText(v)))

\* code points of the characters of the model, in increasing order
Alphabet ==
    << " ", "%", "-", ".", "/", "0", "1", "2", "3", "4", "5", "6", "7", "8", "9",
       "A", "B", "C", "D", "E", "F", "G", "H", "I", "J", "K", "L", "M", "N", "O",
       "P", "Q", "R", "S", "T", "U", "V", "W", "X", "Y", "Z", "_",
       "a", "b", "c", "d", "e", "f", "g", "h", "i", "j", "k", "l", "m", "n", "o",
       "p", "q", "r", "s", "t", "u", "v", "w", "x", "y", "z" >>

Ord(ch) == CHOOSE i \in 1..Len(Alphabet) : Alphabet[i] = ch

\* a < b for two texts, as Python compares str
RECURSIVE StrLess(_, _)
StrLess(a, b) ==
    IF b = <<>> THEN FALSE
    ELSE IF a = <<>> THEN TRUE
    ELSE IF Head(a) = Head(b) THEN StrLess(Tail(a), Tail(b))
    ELSE Ord(Head(a)) < Ord(Head(b))

\* series.astype("category").cat.codes: the categories are the distinct
\* values in sorted order, a missing cell gets -1
cat_codes(values) ==
    [r \in 1..Len(values) |->
        IF values[r] = NULL THEN <<"-", "1">>
        ELSE IntToStr(Cardinality({x \in Range(values) \ {NULL} : StrLess(x, values[r])}))]

\* df.reset_index().index: the zero-based row positions
row_index(df) == [r \in 1..Len(df.rows) |-> IntToStr(r - 1)]

\* "if campaign_id not in df.columns:" of the campaign branch
synthesize_campaign_id(c) ==
    IF ~Live(c) \/ HasCol(c.df, col.campaign_id) THEN c
    ELSE IF Len(c.df.columns) = 1
    THEN WithDf(c, SetCol(c.df, col.campaign_id, cat_codes(Column(c.df, c.df.columns[1]))))
    ELSE WithDf(c, SetCol(c.df, col.campaign_id, row_index(c.df)))

discount_normalized(c) ==
    IF ~Live(c) THEN c
    ELSE IF HasCol(c.df, col.discount)
    THEN assign_from(c, col.discount_normalized, col.discount,
                     [r \in 1..Len(c.df.rows) |->
                         normalize_discount_label(Column(c.df, col.discount)[r])])
    ELSE assign_missing(c, col.discount_normalized)

marketing_campaign(c) ==
    LET table_name == tbl.marketing_campaign
        key_cols == <<col.campaign_id>>
        c1 == synthesize_campaign_id(c)
        c2 == validate_required_columns(c1, key_cols, table_name)
        c3 == check_nulls(c2, key_cols, table_name)
        c4 == discount_normalized(c3)
        c5 == check_duplicates(c4, key_cols, table_name)
    IN  to_parquet(c5, out_file.marketing_campaign)

\* "if <name> not in df.columns: df[<name>] = df.reset_index().index"
index_if_absent(c, name) ==
    IF ~Live(c) \/ HasCol(c.df, name) THEN c
    ELSE WithDf(c, SetCol(c.df, name, row_index(c.df)))

present_keys(df) ==
    SelectSeq(<<col.campaign_id, col.order_id, col.user_id>>, LAMBDA x : HasCol(df, x))

transactional_checks(c, table_name) ==
    IF ~Live(c) THEN c
    ELSE check_duplicates(drop_duplicates(check_nulls(c, present_keys(c.df), table_name),
                                          c.df.columns),
                          present_keys(c.df), table_name)

marketing_transactional_campaign(c) ==
    LET table_name == tbl.marketing_transactional_campaign
        c1 == index_if_absent(c, col.campaign_id)
        c2 == index_if_absent(c1, col.order_id)
        c3 == transactional_checks(c2, table_name)
    IN  to_parquet(c3, out_file.marketing_transactional_campaign)

clean_marketing_branch(c, file) ==
    IF Contains(file, pat.campaign_data) /\ ~Contains(file, pat.transactional)
    THEN marketing_campaign(c)
    ELSE IF Contains(file, pat.transactional_campaign)
    THEN marketing_transactional_campaign(c)
    ELSE Return(c)

clean_marketing(c, file) ==
    clean_marketing_branch(WithDf(c, _rename_marketing_columns(standardize(c.df), file)), file)

----------------------------------------------------------------------------
(* Router *)

RECURSIVE CollapseSpaces(_)
CollapseSpaces(s) ==
    IF Contains(s, <<" ", " ">>) THEN CollapseSpaces(Replace(s, <<" ", " ">>, <<" ">>))
    ELSE s

\* the normalized file name the router derives from the path's base name
RouterName(name) ==
    Replace(CollapseSpaces(Replace(Replace(Lower(name), pat.department_us, <<"_">>),
                                   pat.department_sp, <<"_">>)),
            <<" ">>, <<"_">>)

\* the department the router selects, "unknown" when no prefix matches
cleaner_func(file) ==
    IF StartsWith(file, pat.business_) THEN "clean_business"
    ELSE IF StartsWith(file, pat.customer_management_) \/ StartsWith(file, pat.customer_)
         THEN "clean_customer"
    ELSE IF StartsWith(file, pat.enterprise_) THEN "clean_enterprise"
    ELSE IF StartsWith(file, pat.operations_) THEN "clean_operations"
    ELSE IF StartsWith(file, pat.marketing_) THEN "clean_marketing"
    ELSE "unknown"

\* a router without its final else branch: the call finds cleaner_func unbound
call_unbound(f, c, file) ==
    IF f = "clean_business" THEN clean_business(c, file)
    ELSE IF f = "clean_customer" THEN clean_customer(c, file)
    ELSE IF f = "clean_enterprise" THEN clean_enterprise(c, file)
    ELSE IF f = "clean_operations" THEN clean_operations(c, file)
    ELSE IF f = "clean_marketing" THEN clean_marketing(c, file)
    ELSE Raise(c, "UnboundLocalError")

\* "cleaner_func(df, silver_folder, file)" for the function selected
dispatch(f, c, file) ==
    IF f = "clean_business" THEN clean_business(c, file)
    ELSE IF f = "clean_customer" THEN clean_customer(c, file)
    ELSE IF f = "clean_enterprise" THEN clean_enterprise(c, file)
    ELSE IF f = "clean_operations" THEN clean_operations(c, file)
    ELSE IF f = "clean_marketing" THEN clean_marketing(c, file)
    ELSE Return(c)

\* the body of the router's try block: pd.read_parquet, then the cleaner
route_try(entry, file, folder, qr, buf) ==
    IF ~entry.readable THEN Raise(Ctx(entry.df, folder, qr, buf), "ArrowInvalid")
    ELSE dispatch(cleaner_func(file), Ctx(entry.df, folder, qr, buf), file)

\* a router whose try block has no except clause
no_except(t, file) == t

\* "except Exception as e: log_quality(file, PROCESSING_ERROR, str(e), ERROR)"
except_Exception(t, file) ==
    IF t.exc # NoExc
    THEN log_quality(Raise(t, NoExc), file, "PROCESSING_ERROR", [error |-> t.exc], "ERROR")
    ELSE t

\* cleaner(path, silver_folder)
cleaner(entry, folder, qr, buf) ==
    except_Exception(route_try(entry, RouterName(entry.name), folder, qr, buf),
                     RouterName(entry.name))


----------------------------------------------------------------------------
(* Line-item flush and transaction combiner *)

\* the rows of frame f laid out under columns, NaN where f lacks a column
Widen(f, columns) ==
    [r \in 1..Len(f.rows) |->
        [k \in 1..Len(columns) |->
            IF HasCol(f, columns[k]) THEN f.rows[r][ColIdx(f, columns[k])] ELSE NULL]]

\* the union of the frames' columns in order of first appearance
ConcatColumns(frames) == Distinct(Flatten([i \in 1..Len(frames) |-> frames[i].columns]))

ConcatRows(frames, columns) == Flatten([i \in 1..Len(frames) |-> Widen(frames[i], columns)])

\* pd.concat(frames, ignore_index=True); a frame that holds a column name
\* twice cannot be aligned with the others
concat(c, frames) ==
    IF ~Live(c) THEN c
    ELSE IF \E i \in 1..Len(frames) : HasDuplicateColumns(frames[i])
    THEN Raise(c, "InvalidIndexError")
    ELSE WithDf(c, DataFrame(ConcatColumns(frames),
                             ConcatRows(frames, ConcatColumns(frames))))

\* glob of enterprise_order_with_merchant_data*_bronze.parquet on a raw name
GlobMatch(name) ==
    /\ StartsWith(name, pat.glob_prefix)
    /\ EndsWith(name, pat.glob_suffix)
    /\ Len(name) >= Len(pat.glob_prefix) + Len(pat.glob_suffix)

\* one turn of the combiner's loop, after pd.read_parquet
read_part(df) == rename(standardize(df), enterprise_rename_map(standardize(df)))

\* the combiner's loop: pd.read_parquet of a part is not guarded
read_parts(c, all_files) ==
    IF \E i \in 1..Len(all_files) : ~all_files[i].readable
    THEN Raise(c, "ArrowInvalid")
    ELSE c

combine_parts(c, all_files) ==
    IF ~Live(c) \/ all_files = <<>> THEN c
    ELSE to_parquet(concat(c, [i \in 1..Len(all_files) |-> read_part(all_files[i].df)]),
                    out_file.enterprise_order_merchant_tx)

combine_and_save_enterprise_transactions(c, folder_in) ==
    combine_parts(read_parts(c, SelectSeq(folder_in.files, LAMBDA e : GlobMatch(e.name))),
                  SelectSeq(folder_in.files, LAMBDA e : GlobMatch(e.name)))

\* "if operations_line_items_buffer: pd.concat(...).to_parquet(...)"
flush_line_items(c) ==
    IF c.buf = <<>> THEN c
    ELSE to_parquet(concat(c, c.buf), out_file.operations_line_items)

----------------------------------------------------------------------------
(* Pipeline orchestrator: run_silver_pipeline, one action per step.  pc     *)
(* names the step about to run; ABORTED is the return on a missing input    *)
(* folder, CRASHED an exception leaving run_silver_pipeline.                *)

NoFrame == DataFrame(<<>>, <<>>)

\* the module globals and the silver folder as the called function left
\* them; an exception it let through ends the run
Outcome(r, next_pc) ==
    /\ quality_report' = r.qr
    /\ silver' = r.silver
    /\ operations_line_items_buffer' = r.buf
    /\ pc' = IF r.exc # NoExc THEN "CRASHED" ELSE next_pc

\* the entry of bronze_silver.py's pipeline, which does not look for the
\* input folder
RunWithoutFolderCheck ==
    /\ pc = "INIT"
    /\ pc' = "DISCOVER_FILES"
    /\ UNCHANGED << bronze, silver, bronze_files, cursor, quality_report,
                    operations_line_items_buffer, report_csv, runs, call, gold >>

\* entry of the function up to the check of the input folder
RunSilverPipeline ==
    /\ pc = "INIT"
    /\ pc' = IF bronze.exists THEN "DISCOVER_FILES" ELSE "ABORTED"
    /\ UNCHANGED << bronze, silver, bronze_files, cursor, quality_report,
                    operations_line_items_buffer, report_csv, runs, call, gold >>

Listed(e) == EndsWith(e.name, pat.parquet) /\ ~StartsWith(e.name, <<"_">>)

DiscoverFiles ==
    /\ pc = "DISCOVER_FILES"
    /\ bronze_files' = SelectSeq(bronze.files, Listed)
    /\ cursor' = 0
    /\ pc' = IF SelectSeq(bronze.files, Listed) = <<>>
             THEN "FLUSH_LINE_ITEM_BUFFER" ELSE "ROUTE_AND_CLEAN"
    /\ UNCHANGED << bronze, silver, quality_report, operations_line_items_buffer,
                    report_csv, runs, call, gold >>

\* one turn of "for file in bronze_files: cleaner(...)"
RouteAndClean ==
    /\ pc = "ROUTE_AND_CLEAN"
    /\ cursor < Len(bronze_files)
    /\ cursor' = cursor + 1
    /\ Outcome(cleaner(bronze_files[cursor + 1], silver, quality_report,
                       operations_line_items_buffer),
               IF cursor + 1 = Len(bronze_files)
               THEN "FLUSH_LINE_ITEM_BUFFER" ELSE "ROUTE_AND_CLEAN")
    /\ UNCHANGED << bronze, bronze_files, report_csv, runs, call, gold >>

\* a final write placed inside the loop over the files
FlushInsideLoop ==
    /\ pc \in {"ROUTE_AND_CLEAN", "FLUSH_LINE_ITEM_BUFFER"}
    /\ Outcome(flush_line_items(Ctx(NoFrame, silver, quality_report,
                                    operations_line_items_buffer)),
               "COMBINE_MULTI_PART")
    /\ UNCHANGED << bronze, bronze_files, cursor, report_csv, runs, call, gold >>

FlushLineItemBuffer ==
    /\ pc = "FLUSH_LINE_ITEM_BUFFER"
    /\ Outcome(flush_line_items(Ctx(NoFrame, silver, quality_report,
                                    operations_line_items_buffer)),
               "COMBINE_MULTI_PART")
    /\ UNCHANGED << bronze, bronze_files, cursor, report_csv, runs, call, gold >>

CombineMultiPart ==
    /\ pc = "COMBINE_MULTI_PART"
    /\ Outcome(combine_and_save_enterprise_transactions(
                   Ctx(NoFrame, silver, quality_report, operations_line_items_buffer),
                   bronze),
               "PERSIST_QUALITY_REPORT")
    /\ UNCHANGED << bronze, bronze_files, cursor, report_csv, runs, call, gold >>

PersistQualityReport ==
    /\ pc = "PERSIST_QUALITY_REPORT"
    /\ report_csv' = save_quality_report(quality_report, report_csv)
    /\ pc' = "DONE"
    /\ UNCHANGED << bronze, silver, bronze_files, cursor, quality_report,
                    operations_line_items_buffer, runs, call, gold >>

MissingFolder == [exists |-> FALSE, files |-> <<>>]

\* run_silver_pipeline is called again in the same process: the module
\* globals keep their contents, the locals start afresh; the input folder is
\* as it was or has been removed in between
CallAgain ==
    /\ pc \in {"DONE", "ABORTED"}
    /\ runs < MaxRuns
    /\ runs' = runs + 1
    /\ pc' = "INIT"
    /\ bronze_files' = <<>>
    /\ cursor' = 0
    /\ bronze' \in {bronze, MissingFolder}
    /\ UNCHANGED << silver, quality_report, operations_line_items_buffer, report_csv,
                    call, gold >>

----------------------------------------------------------------------------
(* Inputs: the bronze folder at the start.  An entry of the folder is       *)
(* [name, readable, df]: the raw file name, whether pd.read_parquet can     *)
(* read it, and the record set it holds.                                    *)

bronze_name ==
    [ business |-> <<"B","u","s","i","n","e","s","s"," ","D","e","p","a","r","t","m","e","n","t","_","p","r","o","d","u","c","t","_","l","i","s","t","_","b","r","o","n","z","e",".","p","a","r","q","u","e","t">>
    , business_product |-> <<"b","u","s","i","n","e","s","s","_","p","r","o","d","u","c","t","_","b","r","o","n","z","e",".","p","a","r","q","u","e","t">>
    , user_data |-> <<"c","u","s","t","o","m","e","r","_","m","a","n","a","g","e","m","e","n","t","_","u","s","e","r","_","d","a","t","a","_","b","r","o","n","z","e",".","p","a","r","q","u","e","t">>
    , user_job |-> <<"c","u","s","t","o","m","e","r","_","m","a","n","a","g","e","m","e","n","t","_","u","s","e","r","_","j","o","b","_","b","r","o","n","z","e",".","p","a","r","q","u","e","t">>
    , user_credit_card |-> <<"c","u","s","t","o","m","e","r","_","m","a","n","a","g","e","m","e","n","t","_","u","s","e","r","_","c","r","e","d","i","t","_","c","a","r","d","_","b","r","o","n","z","e",".","p","a","r","q","u","e","t">>
    , merchant_data |-> <<"e","n","t","e","r","p","r","i","s","e","_","m","e","r","c","h","a","n","t","_","d","a","t","a","_","b","r","o","n","z","e",".","p","a","r","q","u","e","t">>
    , staff_data |-> <<"e","n","t","e","r","p","r","i","s","e","_","s","t","a","f","f","_","d","a","t","a","_","b","r","o","n","z","e",".","p","a","r","q","u","e","t">>
    , order_with_merchant_data1 |-> <<"e","n","t","e","r","p","r","i","s","e","_","o","r","d","e","r","_","w","i","t","h","_","m","e","r","c","h","a","n","t","_","d","a","t","a","1","_","b","r","o","n","z","e",".","p","a","r","q","u","e","t">>
    , order_with_merchant_data2 |-> <<"e","n","t","e","r","p","r","i","s","e","_","o","r","d","e","r","_","w","i","t","h","_","m","e","r","c","h","a","n","t","_","d","a","t","a","2","_","b","r","o","n","z","e",".","p","a","r","q","u","e","t">>
    , order_data |-> <<"o","p","e","r","a","t","i","o","n","s","_","o","r","d","e","r","_","d","a","t","a","_","b","r","o","n","z","e",".","p","a","r","q","u","e","t">>
    , line_item_prices1 |-> <<"o","p","e","r","a","t","i","o","n","s","_","l","i","n","e","_","i","t","e","m","_","d","a","t","a","_","p","r","i","c","e","s","1","_","b","r","o","n","z","e",".","p","a","r","q","u","e","t">>
    , line_item_prices2 |-> <<"o","p","e","r","a","t","i","o","n","s","_","l","i","n","e","_","i","t","e","m","_","d","a","t","a","_","p","r","i","c","e","s","2","_","b","r","o","n","z","e",".","p","a","r","q","u","e","t">>
    , line_item_prices3 |-> <<"o","p","e","r","a","t","i","o","n","s","_","l","i","n","e","_","i","t","e","m","_","d","a","t","a","_","p","r","i","c","e","s","3","_","b","r","o","n","z","e",".","p","a","r","q","u","e","t">>
    , line_item_products |-> <<"o","p","e","r","a","t","i","o","n","s","_","l","i","n","e","_","i","t","e","m","_","d","a","t","a","_","p","r","o","d","u","c","t","s","1","_","b","r","o","n","z","e",".","p","a","r","q","u","e","t">>
    , order_delays |-> <<"o","p","e","r","a","t","i","o","n","s","_","o","r","d","e","r","_","d","e","l","a","y","s","_","b","r","o","n","z","e",".","p","a","r","q","u","e","t">>
    , campaign_data |-> <<"m","a","r","k","e","t","i","n","g","_","c","a","m","p","a","i","g","n","_","d","a","t","a","_","b","r","o","n","z","e",".","p","a","r","q","u","e","t">>
    , transactional_campaign_data |-> <<"m","a","r","k","e","t","i","n","g","_","t","r","a","n","s","a","c","t","i","o","n","a","l","_","c","a","m","p","a","i","g","n","_","d","a","t","a","_","b","r","o","n","z","e",".","p","a","r","q","u","e","t">>
    , notes |-> <<"n","o","t","e","s","_","b","r","o","n","z","e",".","p","a","r","q","u","e","t">>
    , hidden |-> <<"_","s","t","a","g","i","n","g","_","b","r","o","n","z","e",".","p","a","r","q","u","e","t">>
    ]

raw ==
    [ product_id |-> <<"P","r","o","d","u","c","t"," ","I","D">>
    , product_name |-> <<"p","r","o","d","u","c","t","_","n","a","m","e">>
    , user_id |-> <<"U","s","e","r","-","I","D">>
    , name |-> <<"n","a","m","e">>
    , birthdate |-> <<"b","i","r","t","h","d","a","t","e">>
    , job_title |-> <<"j","o","b","_","t","i","t","l","e">>
    , credit_card_number |-> <<"c","r","e","d","i","t","_","c","a","r","d","_","n","u","m","b","e","r">>
    , issuing_bank |-> <<"i","s","s","u","i","n","g","_","b","a","n","k">>
    , merchant_id |-> <<"m","e","r","c","h","a","n","t","_","i","d">>
    , staff_id |-> <<"s","t","a","f","f","_","i","d">>
    , order_id |-> <<"o","r","d","e","r","_","i","d">>
    , orderid |-> <<"o","r","d","e","r","i","d">>
    , estimated_arrival |-> <<"e","s","t","i","m","a","t","e","d"," ","a","r","r","i","v","a","l">>
    , transaction_date |-> <<"t","r","a","n","s","a","c","t","i","o","n","_","d","a","t","e">>
    , price |-> <<"p","r","i","c","e">>
    , quantity |-> <<"q","u","a","n","t","i","t","y">>
    , campaign_id |-> <<"c","a","m","p","a","i","g","n","_","i","d">>
    , campaign_name |-> <<"c","a","m","p","a","i","g","n","_","n","a","m","e">>
    , discount |-> <<"d","i","s","c","o","u","n","t">>
    , availed |-> <<"a","v","a","i","l","e","d">>
    , delay_in_days |-> <<"d","e","l","a","y"," ","i","n"," ","d","a","y","s">>
    , note |-> <<"n","o","t","e">>
    ]


Entry(name, readable, df) == [name |-> name, readable |-> readable, df |-> df]

Unreadable(name) == Entry(name, FALSE, DataFrame(<<>>, <<>>))

KeyVals == {NULL, <<"1">>, <<"2">>}

\* the i-th non-key cell of a generated record set: the row's position
Pos(i) == <<"r">> \o IntToStr(i)

\* all sequences over S of length 0..n
SeqsUpTo(S, n) == UNION {[1..k -> S] : k \in 0..n}

\* the record sets with the given key columns, each cell drawn from that
\* column's value set, and (when paycol is a name) one more column that
\* holds the row's position
Frames(keycols, valsets, paycol) ==
    LET Keys == {t \in [1..Len(keycols) -> UNION Range(valsets)] :
                    \A k \in 1..Len(keycols) : t[k] \in valsets[k]}
    IN  { DataFrame(keycols \o (IF paycol = <<>> THEN <<>> ELSE <<paycol>>),
                    [i \in 1..Len(ks) |->
                        ks[i] \o (IF paycol = <<>> THEN <<>> ELSE <<Pos(i)>>)])
          : ks \in SeqsUpTo(Keys, MaxRows) }

\* single-file batches: one file of a table, its keys over all patterns
DeepKinds ==
    { [name |-> bronze_name.business_product, keycols |-> <<raw.product_id>>,
       valsets |-> <<KeyVals>>, paycol |-> raw.product_name],
      [name |-> bronze_name.business_product, keycols |-> <<>>,
       valsets |-> <<>>, paycol |-> raw.product_name],
      [name |-> bronze_name.user_data, keycols |-> <<raw.user_id>>,
       valsets |-> <<KeyVals>>, paycol |-> raw.name],
      [name |-> bronze_name.user_job, keycols |-> <<raw.user_id>>,
       valsets |-> <<KeyVals>>, paycol |-> raw.job_title],
      [name |-> bronze_name.user_credit_card,
       keycols |-> <<raw.user_id, raw.credit_card_number>>,
       valsets |-> <<KeyVals, {<<"1">>, <<"2">>}>>, paycol |-> raw.issuing_bank],
      [name |-> bronze_name.user_credit_card, keycols |-> <<raw.user_id>>,
       valsets |-> <<KeyVals>>, paycol |-> raw.issuing_bank],
      [name |-> bronze_name.merchant_data, keycols |-> <<raw.merchant_id>>,
       valsets |-> <<KeyVals>>, paycol |-> raw.name],
      [name |-> bronze_name.staff_data, keycols |-> <<raw.staff_id>>,
       valsets |-> <<KeyVals>>, paycol |-> raw.name],
      [name |-> bronze_name.order_with_merchant_data1,
       keycols |-> <<raw.orderid, raw.merchant_id>>,
       valsets |-> <<KeyVals, {NULL, <<"1">>}>>, paycol |-> raw.staff_id],
      [name |-> bronze_name.order_data, keycols |-> <<raw.order_id>>,
       valsets |-> <<KeyVals>>, paycol |-> raw.estimated_arrival],
      [name |-> bronze_name.line_item_products,
       keycols |-> <<raw.order_id, raw.product_id>>,
       valsets |-> <<KeyVals, {NULL, <<"1">>}>>, paycol |-> raw.quantity],
      [name |-> bronze_name.line_item_products, keycols |-> <<raw.order_id>>,
       valsets |-> <<KeyVals>>, paycol |-> raw.quantity],
      [name |-> bronze_name.order_delays, keycols |-> <<raw.order_id>>,
       valsets |-> <<KeyVals>>, paycol |-> <<>>],
      [name |-> bronze_name.campaign_data, keycols |-> <<raw.campaign_id>>,
       valsets |-> <<KeyVals>>, paycol |-> raw.campaign_name],
      [name |-> bronze_name.transactional_campaign_data,
       keycols |-> <<raw.order_id, raw.campaign_id>>,
       valsets |-> <<KeyVals, {<<"1">>, <<"2">>}>>, paycol |-> raw.availed] }

DeepBatches ==
    UNION { { <<Entry(k.name, TRUE, f)>> : f \in Frames(k.keycols, k.valsets, k.paycol) }
            : k \in DeepKinds }


\* mixed batches: a few files that between them take every branch of the
\* router and of the orchestrator
Catalogue ==
    { Entry(bronze_name.business, TRUE,
            DataFrame(<<raw.product_id, raw.product_name>>,
                      << << <<"P","1">>, <<"a">> >>,
                         << <<"P","1">>, <<"b">> >>,
                         << NULL, <<"c">> >> >>)),
      Entry(bronze_name.user_data, TRUE,
            DataFrame(<<raw.user_id, raw.birthdate>>,
                      << << <<"1">>, <<"1","9","9","0","-","0","1","-","3","1">> >>,
                         << <<"2">>, <<"s","o","o","n">> >>,
                         << <<"2">>, NULL >> >>)),
      Entry(bronze_name.user_credit_card, TRUE,
            DataFrame(<<raw.user_id, raw.issuing_bank>>,
                      << << <<"1">>, <<"b">> >> >>)),
      Entry(bronze_name.order_with_merchant_data1, TRUE,
            DataFrame(<<raw.orderid, raw.merchant_id, raw.staff_id>>,
                      << << <<"1">>, <<"M","1">>, <<"S","1">> >>,
                         << <<"1">>, <<"M","2">>, <<"S","1">> >>,
                         << NULL, <<"M","1">>, <<"S","2">> >> >>)),
      Unreadable(bronze_name.order_with_merchant_data2),
      Entry(bronze_name.merchant_data, TRUE,
            DataFrame(<<raw.merchant_id, raw.name>>,
                      << << <<"M","1">>, <<"x">> >>,
                         << <<"M","1">>, <<"y">> >> >>)),
      Entry(bronze_name.order_data, TRUE,
            DataFrame(<<raw.order_id, raw.transaction_date>>,
                      << << <<"1">>, <<"2","0","2","0","-","0","1","-","0","5">> >>,
                         << <<"1">>, <<"l","a","t","e","r">> >>,
                         << NULL, NULL >> >>)),
      Entry(bronze_name.line_item_prices1, TRUE,
            DataFrame(<<raw.order_id, raw.price, raw.quantity>>,
                      << << <<"1">>, <<"9">>, <<"2","p","x">> >>,
                         << <<"1">>, <<"4">>, <<"1">> >> >>)),
      Entry(bronze_name.line_item_prices2, TRUE,
            DataFrame(<<raw.order_id, raw.price, raw.quantity>>,
                      << << <<"2">>, <<"5">>, <<"3">> >> >>)),
      Entry(bronze_name.line_item_prices3, TRUE,
            DataFrame(<<raw.order_id, raw.price, raw.quantity>>,
                      << << <<"1">>, <<"5">>, <<"3">> >> >>)),
      Entry(bronze_name.campaign_data, TRUE,
            DataFrame(<<raw.campaign_id, raw.discount>>,
                      << << <<"C","1">>, <<"1","5","p","c","t">> >>,
                         << <<"C","1">>, <<"N","/","A">> >>,
                         << NULL, <<"5","%">> >> >>)),
      Entry(bronze_name.notes, TRUE,
            DataFrame(<<raw.note>>, << << <<"x">> >> >>)),
      Entry(bronze_name.hidden, TRUE,
            DataFrame(<<raw.note>>, << << <<"x">> >> >>)) }

\* a folder holds each name once
WideBatches ==
    { b \in SeqsUpTo(Catalogue, MaxFiles) :
        \A i, j \in DOMAIN b : i # j => b[i].name # b[j].name }

EmptyFolder == << >>

\* the silver folder as an earlier process left it
PreloadedSilver ==
    out_file.business_product :>
        DataFrame(<<col.product_id, col.product_name>>,
                  << << <<"P","1">>, <<"a">> >>, << <<"P","2">>, <<"b">> >> >>)

NoReport == [written |-> FALSE, rows |-> <<>>]

\* no validator or utility is called on its own while the pipeline runs
NoCall == [op |-> "none"]

\* the Gold loader is not running
NoGold == [pc |-> "none"]

Init ==
    /\ gold = NoGold
    /\ call = NoCall
    /\ pc = "INIT"
    /\ runs = 1
    /\ bronze \in {MissingFolder}
                  \cup {[exists |-> TRUE, files |-> b] : b \in WideBatches \cup DeepBatches}
    /\ silver \in {EmptyFolder, PreloadedSilver}
    /\ bronze_files = <<>>
    /\ cursor = 0
    /\ quality_report = <<>>
    /\ operations_line_items_buffer = <<>>
    /\ report_csv = NoReport


Next ==
    \/ RunSilverPipeline
    \/ DiscoverFiles
    \/ RouteAndClean
    \/ FlushLineItemBuffer
    \/ CombineMultiPart
    \/ PersistQualityReport
    \/ CallAgain


Spec == Init /\ [][Next]_vars

----------------------------------------------------------------------------
(* The validators and utilities called on their own *)

MaxName == 2

MaxAliases == 2

\* a call that has not been made yet: its record set and its key columns
Pending(df, key_cols) == [op |-> "pending", df |-> df, key_cols |-> key_cols]

KeyLists ==
    { <<col.order_id>>, <<col.order_id, col.product_id>>,
      <<col.order_id, col.user_id>>, <<col.user_id, col.merchant_id>> }

\* record sets over two key columns, empty ones and missing cells included
KeyFrames ==
    Frames(<<col.order_id, col.product_id>>, <<KeyVals, {NULL, <<"1">>}>>, <<>>)

\* record sets in which standardize has given two columns the same name
TwinFrames ==
    Frames(<<col.order_id, col.order_id>>, <<{<<"1">>}, {NULL, <<"1">>}>>, <<>>)

\* column names as a source file may spell them
Margins == {<<>>, <<" ">>, <<"\t">>, <<" ", " ">>}

RawNames ==
    { l \o m \o r : l \in Margins, r \in Margins,
                    m \in SeqsUpTo({"A", "b", " ", "-", "_"}, MaxName) }

NameFrames ==
    { DataFrame(<<n>>, << <<Pos(1)>> >>) : n \in RawNames }
        \cup { DataFrame(<<n, raw.user_id>>, << <<Pos(1), NULL>>, <<Pos(2), <<"1">>>> >>)
               : n \in RawNames }

\* record sets of text without an identifier column, and some with one
TextFrames ==
    Frames(<<col.product_name>>, <<{NULL, <<"a">>, <<"b">>}>>, <<>>)
        \cup Frames(<<col.product_name>>, <<{<<"a">>, <<"b">>}>>, col.discount)
        \cup Frames(<<col.campaign_id>>, <<{<<"7">>, <<"9">>}>>, <<>>)

\* discount texts as campaign files spell them
DiscountTexts ==
    { <<"1","5","p","c","t">>, <<"N","/","A">>, <<"1","0"," ","P","e","r","c","e","n","t">>,
      <<"1","0","-","2","0","%">>, <<" ","5"," ","%"," ","o","f","f"," ","9">>, NULL }
        \cup SeqsUpTo({"1", "0", "%", ".", "p", "c", "t", " "}, MaxName)

\* campaign record sets of one row with a discount text
DiscountFrames ==
    { DataFrame(<<col.campaign_id, col.discount>>, << << <<"1">>, t >> >>)
      : t \in DiscountTexts }

\* the alias and canonical names of the identifier columns
IdNames ==
    << col.orderid, col.order_id, col.merchantid, col.merchant_id, col.staffid,
       col.staff_id, col.userid, col.user_id, col.productid, col.prod_id, col.sku,
       col.item_id, col.product_id, col.campaignid, col.id, col.campaign_id >>

\* record sets of one row whose columns are up to MaxAliases of those names
AliasFrames ==
    { DataFrame(Cells(IdNames, SortedIdx(S)), <<[k \in 1..Cardinality(S) |-> Pos(k)]>>)
      : S \in {T \in SUBSET (1..Len(IdNames)) : Cardinality(T) \in 1..MaxAliases} }

Pendings ==
    { Pending(df, k) : df \in KeyFrames \cup TwinFrames, k \in KeyLists }
        \cup { Pending(df, <<col.campaign_id>>)
                : df \in NameFrames \cup TextFrames \cup DiscountFrames \cup AliasFrames }

\* the log as earlier calls may have left it
PriorLogs ==
    { <<>>,
      <<[table |-> tbl.customer_user, issue_type |-> "MISSING_COLUMNS",
         details |-> [missing |-> <<col.user_id>>], severity |-> "ERROR"]>> }

\* the table the calls are made for
CallTable == tbl.operations_line_items

InitCalls ==
    /\ gold = NoGold
    /\ call \in Pendings
    /\ quality_report \in PriorLogs
    /\ pc = "CALL"
    /\ bronze = MissingFolder
    /\ silver = EmptyFolder
    /\ bronze_files = <<>>
    /\ cursor = 0
    /\ operations_line_items_buffer = <<>>
    /\ report_csv = NoReport
    /\ runs = 1

CallCtx == Ctx(call.df, silver, quality_report, operations_line_items_buffer)

\* the call returns (or raises): r is the context it leaves, ret its value
Applied(op, r, ret) ==
    /\ call' = [op |-> op, df |-> call.df, key_cols |-> call.key_cols,
                before |-> quality_report, out |-> r.df, ret |-> ret, exc |-> r.exc]
    /\ quality_report' = r.qr
    /\ UNCHANGED << pc, bronze, silver, bronze_files, cursor,
                    operations_line_items_buffer, report_csv, runs, gold >>

CallStandardize ==
    /\ call.op = "pending"
    /\ Applied("standardize", WithDf(CallCtx, standardize(call.df)), 0)

CallValidateRequiredColumns ==
    /\ call.op = "pending"
    /\ Applied("validate_required_columns",
               validate_required_columns(CallCtx, call.key_cols, CallTable), 0)

CallCheckNulls ==
    /\ call.op = "pending"
    /\ Applied("check_nulls", check_nulls(CallCtx, call.key_cols, CallTable), 0)

CallCheckDuplicates ==
    /\ call.op = "pending"
    /\ Applied("check_duplicates", check_duplicates(CallCtx, call.key_cols, CallTable),
               dup_count(call.df, call.key_cols))

CallSynthesizeCampaignId ==
    /\ call.op = "pending"
    /\ Applied("synthesize_campaign_id", synthesize_campaign_id(CallCtx), 0)

\* df["discount_normalized"] = df["discount"].apply(normalize_discount_label)
CallDiscountNormalized ==
    /\ call.op = "pending"
    /\ Applied("discount_normalized", discount_normalized(CallCtx), 0)

\* the renames of clean_enterprise's transaction branch
CallRenameEnterprise ==
    /\ call.op = "pending"
    /\ Applied("rename_enterprise",
               WithDf(CallCtx, rename(call.df, enterprise_rename_map(call.df))), 0)

CallRenameOperations ==
    /\ call.op = "pending"
    /\ Applied("rename_operations",
               WithDf(CallCtx, _rename_operations_columns(call.df)), 0)

\* the renames of clean_marketing for a campaign file
CallRenameMarketing ==
    /\ call.op = "pending"
    /\ Applied("rename_marketing",
               WithDf(CallCtx, _rename_marketing_columns(
                                   call.df, RouterName(bronze_name.campaign_data))), 0)

NextCalls ==
    \/ CallStandardize
    \/ CallValidateRequiredColumns
    \/ CallCheckNulls
    \/ CallCheckDuplicates
    \/ CallSynthesizeCampaignId
    \/ CallDiscountNormalized
    \/ CallRenameEnterprise
    \/ CallRenameOperations
    \/ CallRenameMarketing

SpecCalls == InitCalls /\ [][NextCalls]_vars

----------------------------------------------------------------------------
(* The Gold loader (scripts/gold/modded_goldload.py).  It reads the silver  *)
(* folder and appends to the tables of schema gold.  A surrogate key is the *)
(* text of its number, so that every cell of a table is a text or NULL.     *)
(* The cells of the numeric and timestamp columns of the model's Silver     *)
(* tables are well-formed or missing; the database's type checks on them    *)
(* are not modelled.                                                        *)

\* DataFrame.empty: no rows or no columns
empty(df) == df.columns = <<>> \/ df.rows = <<>>

\* load_silver_data: the parquet file of that name; whatever goes wrong in
\* reading it is printed and an empty record set is returned
load_silver_data(folder, file_name) ==
    IF (file_name \o pat.parquet) \in DOMAIN folder
    THEN folder[file_name \o pat.parquet] ELSE NoFrame

\* df.head(max_rows)
head(df, max_rows) ==
    DataFrame(df.columns, SubSeq(df.rows, 1, IF Len(df.rows) < max_rows THEN Len(df.rows) ELSE max_rows))

\* df[[names]] on a record set that has them all
Select(df, names) ==
    DataFrame(names,
              [r \in 1..Len(df.rows) |->
                  [k \in 1..Len(names) |-> df.rows[r][ColIdx(df, names[k])]]])

\* str.slice(0, length)
Slice(v, length) == SubSeq(v, 1, IF Len(v) < length THEN Len(v) ELSE length)

\* df[c] = df[c].astype(str).str.slice(0, length)
SliceCol(df, c, length) ==
    SetCol(df, c, [r \in 1..Len(df.rows) |->
                      Slice(AsStr(df.rows[r][ColIdx(df, c)]), length)])

\* the same for each <<column, length>> of specs that is a column of df
RECURSIVE SliceCols(_, _)
SliceCols(df, specs) ==
    IF specs = <<>> THEN df
    ELSE SliceCols(IF HasCol(df, Head(specs)[1])
                   THEN SliceCol(df, Head(specs)[1], Head(specs)[2]) ELSE df,
                   Tail(specs))

\* the suffix pandas gives a column, other than the key, that both sides of
\* a merge hold
Suffixed(names, other, on, suffix) ==
    [i \in 1..Len(names) |->
        IF names[i] # on /\ \E j \in 1..Len(other) : other[j] = names[i]
        THEN names[i] \o suffix ELSE names[i]]

\* left.merge(right, on=on, how=how), how being "inner" or "left": the rows
\* of left in their order, each once per row of right with an equal key
\* (missing keys are equal to one another); how="left" keeps a row without a
\* match, the columns of right missing
merge(left, right, on, how) ==
    LET rest == SortedIdx({j \in 1..Len(right.columns) : right.columns[j] # on})
        pairs == [r \in 1..Len(left.rows) |->
                    LET hits == SortedIdx({m \in 1..Len(right.rows) :
                                    right.rows[m][ColIdx(right, on)]
                                        = left.rows[r][ColIdx(left, on)]})
                    IN  IF hits = <<>>
                        THEN (IF how = "left"
                              THEN << left.rows[r] \o [k \in 1..Len(rest) |-> NULL] >>
                              ELSE << >>)
                        ELSE [k \in 1..Len(hits) |->
                                left.rows[r] \o Cells(right.rows[hits[k]], rest)]]
    IN  DataFrame(Suffixed(left.columns, right.columns, on, <<"_","x">>)
                     \o Suffixed(Cells(right.columns, rest), left.columns, on, <<"_","y">>),
                  Flatten(pairs))

\* the tables of schema gold
GoldTables ==
    {"user_dim", "product_dim", "merchant_dim", "staff_dim", "campaign_dim",
     "credit_card_dim", "date_dim", "order_line_fact"}

\* create_production_schema's DDL: the identity column (none for date_dim),
\* the other columns, those declared NOT NULL and those declared UNIQUE or
\* PRIMARY KEY
ddl ==
    [ user_dim |->
        [identity |-> <<gcol.user_key>>,
         columns |-> <<col.user_id, gcol.user_name, gcol.user_job, gcol.user_job_lvl,
                       gcol.creation_date, gcol.street, gcol.state, gcol.city,
                       gcol.country, col.birthdate, gcol.gender, gcol.device_address,
                       gcol.user_type>>,
         not_null |-> <<col.user_id, gcol.user_name>>,
         unique |-> <<col.user_id>>]
    , product_dim |->
        [identity |-> <<gcol.product_key>>,
         columns |-> <<col.product_id, col.product_name, gcol.product_type,
                       gcol.product_unit_price>>,
         not_null |-> <<col.product_id, col.product_name, gcol.product_unit_price>>,
         unique |-> <<col.product_id>>]
    , merchant_dim |->
        [identity |-> <<gcol.merchant_key>>,
         columns |-> <<col.merchant_id, gcol.merchant_creation_date, gcol.merchant_name,
                       gcol.merchant_street, gcol.merchant_state, gcol.merchant_city,
                       gcol.merchant_country, gcol.merchant_contact_no>>,
         not_null |-> <<col.merchant_id, gcol.merchant_name>>,
         unique |-> <<col.merchant_id>>]
    , staff_dim |->
        [identity |-> <<gcol.staff_key>>,
         columns |-> <<col.staff_id, gcol.staff_name, gcol.staff_job_lvl,
                       gcol.staff_creation_date, gcol.staff_street, gcol.staff_state,
                       gcol.staff_city, gcol.staff_country, gcol.staff_contact_no>>,
         not_null |-> <<col.staff_id, gcol.staff_name>>,
         unique |-> <<col.staff_id>>]
    , campaign_dim |->
        [identity |-> <<gcol.campaign_key>>,
         columns |-> <<col.campaign_id, gcol.campaign_name, gcol.campaign_description,
                       gcol.campaign_discount>>,
         not_null |-> <<col.campaign_id, gcol.campaign_name>>,
         unique |-> <<col.campaign_id>>]
    , credit_card_dim |->
        [identity |-> <<gcol.credit_card_key>>,
         columns |-> <<col.credit_card_number, col.user_id, gcol.card_type,
                       gcol.bank_name, gcol.expiry_date>>,
         not_null |-> <<col.credit_card_number, col.user_id>>,
         unique |-> <<col.credit_card_number>>]
    , date_dim |->
        [identity |-> << >>,
         columns |-> <<gcol.date_key, gcol.full_date, gcol.year, gcol.quarter,
                       gcol.month, gcol.day>>,
         not_null |-> <<gcol.date_key, gcol.full_date, gcol.year, gcol.quarter,
                        gcol.month, gcol.day>>,
         unique |-> <<gcol.date_key>>]
    , order_line_fact |->
        [identity |-> <<gcol.order_line_key>>,
         columns |-> <<col.order_id, gcol.order_line_id, gcol.user_key,
                       gcol.product_key, gcol.merchant_key, gcol.staff_key,
                       gcol.campaign_key, gcol.credit_card_key, gcol.order_date_key,
                       col.quantity, gcol.line_amount>>,
         not_null |-> << >>,
         unique |-> << >>]
    ]

\* a table as CREATE TABLE leaves it
NoRows(t) == DataFrame(ddl[t].identity \o ddl[t].columns, << >>)

\* the loader ends with an exception nobody catches
Fail(g, e) == [g EXCEPT !.exc = e, !.pc = "FAILED"]

\* the cell of row r that goes into column c of a table: missing when df
\* does not give the column
Given(df, r, c) == IF HasCol(df, c) THEN df.rows[r][ColIdx(df, c)] ELSE NULL

\* row r has a missing cell in a NOT NULL column
NullRefused(df, d, r) ==
    \E k \in 1..Len(d.not_null) : Given(df, r, d.not_null[k]) = NULL

\* row r has a value of a UNIQUE column that the table or an earlier row of
\* df holds
UniqueRefused(old, df, d, r) ==
    \E k \in 1..Len(d.unique) :
        /\ Given(df, r, d.unique[k]) # NULL
        /\ \/ \E q \in 1..(r - 1) :
                 Given(df, q, d.unique[k]) = Given(df, r, d.unique[k])
           \/ \E q \in 1..Len(old.rows) :
                 old.rows[q][ColIdx(old, d.unique[k])] = Given(df, r, d.unique[k])

\* the table cannot take row r
Refused(old, df, d, r) == NullRefused(df, d, r) \/ UniqueRefused(old, df, d, r)

\* the error of a refused row: NOT NULL is checked before the index
ViolationOf(df, d, r) ==
    IF NullRefused(df, d, r) THEN "NotNullViolation" ELSE "UniqueViolation"

\* the rows of df as the table stores them: the identity value first, then
\* the table's columns, one that df does not give being NULL
Stored(df, d, start) ==
    [r \in 1..Len(df.rows) |->
        [k \in 1..Len(d.identity) |-> IntToStr(start + r - 1)]
            \o [k \in 1..Len(d.columns) |->
                   Given(df, r, d.columns[k])]]

\* df.to_sql(t, engine, schema="gold", if_exists="append", index=False): one
\* transaction; a refused row rolls the whole insert back and raises, the
\* identity values drawn so far being spent
to_sql(g, t, df) ==
    LET refused == {r \in 1..Len(df.rows) : Refused(g.tables[t], df, ddl[t], r)}
    IN  IF \E i \in 1..Len(df.columns) :
               \A k \in 1..Len(ddl[t].columns) : ddl[t].columns[k] # df.columns[i]
        THEN Fail(g, "ProgrammingError")
        ELSE IF refused # {}
        THEN [Fail(g, ViolationOf(df, ddl[t], SortedIdx(refused)[1]))
                 EXCEPT !.identity[t] = @ + Len(ddl[t].identity) * SortedIdx(refused)[1]]
        ELSE [g EXCEPT !.tables[t] =
                            DataFrame(@.columns,
                                      @.rows \o Stored(df, ddl[t], g.identity[t])),
                       !.identity[t] = @ + Len(ddl[t].identity) * Len(df.rows)]

(* The dimension loaders *)

user_columns ==
    <<col.user_id, gcol.user_name, gcol.user_job, gcol.user_job_lvl,
      gcol.creation_date, gcol.street, gcol.state, gcol.city, gcol.country,
      col.birthdate, gcol.gender, gcol.device_address, gcol.user_type>>

job_columns == <<col.user_id, gcol.job_title, gcol.job_level>>

\* a column of missing cells
Missing(df) == [r \in 1..Len(df.rows) |-> NULL]

\* user_df joined to the job attributes, or given two columns of None
merged_users(user_df, user_job_df) ==
    IF ~empty(user_job_df)
    THEN merge(user_df, Select(user_job_df, job_columns), col.user_id, "left")
    ELSE SetCol(SetCol(user_df, gcol.job_title, Missing(user_df)),
                gcol.job_level, Missing(user_df))

renamed_users(merged) ==
    rename(merged, (gcol.name :> gcol.user_name) @@ (gcol.job_title :> gcol.user_job)
                     @@ (gcol.job_level :> gcol.user_job_lvl))

load_user_dim(g, folder) ==
    LET user_df == load_silver_data(folder, tbl.customer_user)
        user_job_df == load_silver_data(folder, tbl.customer_user_job)
    IN  IF empty(user_df) THEN g
        ELSE IF ~empty(user_job_df)
                /\ (MissingCols(user_job_df, job_columns) # <<>>
                    \/ ~HasCol(user_df, col.user_id))
        THEN Fail(g, "KeyError")
        ELSE IF MissingCols(renamed_users(merged_users(user_df, user_job_df)),
                            user_columns) # <<>>
        THEN Fail(g, "KeyError")
        ELSE to_sql(g, "user_dim",
                DropDuplicates(
                    SliceCols(Select(renamed_users(merged_users(user_df, user_job_df)),
                                     user_columns),
                              << <<gcol.user_name, 100>>, <<gcol.user_job, 50>>,
                                 <<gcol.user_job_lvl, 10>>, <<gcol.street, 100>>,
                                 <<gcol.state, 50>>, <<gcol.city, 50>>,
                                 <<gcol.country, 50>>, <<gcol.gender, 10>>,
                                 <<gcol.device_address, 100>>, <<gcol.user_type, 30>> >>),
                    {col.user_id}))

\* the shape the product, merchant and staff loaders share: rename, project
\* (KeyError on a column that is not there), slice the texts, append
load_renamed(g, t, df, rename_map, columns, specs) ==
    IF empty(df) THEN g
    ELSE IF MissingCols(rename(df, rename_map), columns) # <<>>
    THEN Fail(g, "KeyError")
    ELSE to_sql(g, t, SliceCols(Select(rename(df, rename_map), columns), specs))

gold_load_product_dim(g, folder) ==
    load_renamed(g, "product_dim", load_silver_data(folder, tbl.business_product),
                 col.price :> gcol.product_unit_price,
                 <<col.product_id, col.product_name, gcol.product_type,
                   gcol.product_unit_price>>,
                 << <<col.product_name, 120>>, <<gcol.product_type, 60>> >>)

load_merchant_dim(g, folder) ==
    load_renamed(g, "merchant_dim", load_silver_data(folder, tbl.enterprise_merchant),
                 (gcol.creation_date :> gcol.merchant_creation_date)
                    @@ (gcol.name :> gcol.merchant_name)
                    @@ (gcol.street :> gcol.merchant_street)
                    @@ (gcol.state :> gcol.merchant_state)
                    @@ (gcol.city :> gcol.merchant_city)
                    @@ (gcol.country :> gcol.merchant_country)
                    @@ (gcol.contact_number :> gcol.merchant_contact_no),
                 <<col.merchant_id, gcol.merchant_creation_date, gcol.merchant_name,
                   gcol.merchant_street, gcol.merchant_state, gcol.merchant_city,
                   gcol.merchant_country, gcol.merchant_contact_no>>,
                 << <<gcol.merchant_name, 120>>, <<gcol.merchant_street, 100>>,
                    <<gcol.merchant_state, 50>>, <<gcol.merchant_city, 50>>,
                    <<gcol.merchant_country, 50>>, <<gcol.merchant_contact_no, 40>> >>)

load_staff_dim(g, folder) ==
    load_renamed(g, "staff_dim", load_silver_data(folder, tbl.enterprise_staff),
                 (gcol.name :> gcol.staff_name)
                    @@ (gcol.job_level :> gcol.staff_job_lvl)
                    @@ (gcol.creation_date :> gcol.staff_creation_date)
                    @@ (gcol.street :> gcol.staff_street)
                    @@ (gcol.state :> gcol.staff_state)
                    @@ (gcol.city :> gcol.staff_city)
                    @@ (gcol.country :> gcol.staff_country)
                    @@ (gcol.contact_number :> gcol.staff_contact_no),
                 <<col.staff_id, gcol.staff_name, gcol.staff_job_lvl,
                   gcol.staff_creation_date, gcol.staff_street, gcol.staff_state,
                   gcol.staff_city, gcol.staff_country, gcol.staff_contact_no>>,
                 << <<gcol.staff_name, 100>>, <<gcol.staff_job_lvl, 10>>,
                    <<gcol.staff_street, 100>>, <<gcol.staff_state, 50>>,
                    <<gcol.staff_city, 50>>, <<gcol.staff_country, 50>>,
                    <<gcol.staff_contact_no, 40>> >>)

\* c["campaign_discount"]: the normalized label, else the raw one, else None
campaign_discount(c) ==
    SetCol(c, gcol.campaign_discount,
           IF HasCol(c, col.discount_normalized) THEN Column(c, col.discount_normalized)
           ELSE IF HasCol(c, col.discount) THEN Column(c, col.discount)
           ELSE Missing(c))

load_campaign_dim(g, folder) ==
    load_renamed(g, "campaign_dim",
                 IF empty(load_silver_data(folder, tbl.marketing_campaign))
                 THEN NoFrame
                 ELSE campaign_discount(load_silver_data(folder, tbl.marketing_campaign)),
                 << >>,
                 <<col.campaign_id, gcol.campaign_name, gcol.campaign_description,
                   gcol.campaign_discount>>,
                 << <<gcol.campaign_name, 120>>, <<gcol.campaign_description, 255>>,
                    <<gcol.campaign_discount, 10>> >>)

\* cc as load_credit_card_dim has it before drop_duplicates: the names in
\* lower case, the kept columns that are there, the expiry date parsed, the
\* texts sliced
credit_cards(cc) ==
    LET lowered == DataFrame([i \in 1..Len(cc.columns) |-> Lower(cc.columns[i])], cc.rows)
        keep == SelectSeq(<<col.credit_card_number, col.user_id, gcol.card_type,
                            gcol.bank_name, gcol.expiry_date>>,
                          LAMBDA x : HasCol(lowered, x))
        kept == Select(lowered, keep)
    IN  SliceCols(IF HasCol(kept, gcol.expiry_date)
                  THEN CoerceCol(kept, gcol.expiry_date, "datetime") ELSE kept,
                  << <<col.credit_card_number, 32>>, <<col.user_id, 64>>,
                     <<gcol.card_type, 30>>, <<gcol.bank_name, 60>> >>)

load_credit_card_dim(g, folder) ==
    LET cc == load_silver_data(folder, tbl.customer_user_credit_card)
    IN  IF empty(cc) THEN g
        ELSE IF empty(credit_cards(cc)) THEN to_sql(g, "credit_card_dim", credit_cards(cc))
        ELSE IF ~HasCol(credit_cards(cc), col.credit_card_number) THEN Fail(g, "KeyError")
        ELSE to_sql(g, "credit_card_dim",
                    DropDuplicates(credit_cards(cc), {col.credit_card_number}))

(* The date dimension.  The dates of the model lie in the year 2020, the    *)
(* year of the loader's default range; month_name, day_name and is_weekend  *)
(* are not modelled.                                                        *)

MonthDays == <<31, 29, 31, 30, 31, 30, 31, 31, 30, 31, 30, 31>>

RECURSIVE DaysBefore(_)
DaysBefore(m) == IF m = 1 THEN 0 ELSE DaysBefore(m - 1) + MonthDays[m - 1]

DigitValue(ch) == CHOOSE d \in 0..9 : Digit(d) = <<ch>>

\* int() of a text of digits
RECURSIVE ToInt(_)
ToInt(v) ==
    IF v = <<>> THEN 0
    ELSE 10 * ToInt(SubSeq(v, 1, Len(v) - 1)) + DigitValue(v[Len(v)])

TwoDigits(n) == Digit(n \div 10) \o Digit(n % 10)

\* pd.to_datetime(cell, errors="coerce").normalize(): the day of the year
\* 2020 the cell reads as, 0 for NaT
DayOf(v) ==
    IF v = NULL \/ ~ParsesAsDatetime(v) THEN 0
    ELSE IF SubSeq(v, 1, 4) # <<"2","0","2","0">> THEN 0
    ELSE IF ToInt(SubSeq(v, 6, 7)) \notin 1..12 THEN 0
    ELSE IF ToInt(SubSeq(v, 9, 10)) \notin 1..MonthDays[ToInt(SubSeq(v, 6, 7))] THEN 0
    ELSE DaysBefore(ToInt(SubSeq(v, 6, 7))) + ToInt(SubSeq(v, 9, 10))

MonthOf(n) == CHOOSE m \in 1..12 : DaysBefore(m) < n /\ n <= DaysBefore(m) + MonthDays[m]

\* the date of day n of 2020, written YYYY-MM-DD
DateOf(n) ==
    <<"2","0","2","0","-">> \o TwoDigits(MonthOf(n)) \o <<"-">>
        \o TwoDigits(n - DaysBefore(MonthOf(n)))

\* the days found in the columns of a table whose name holds "date" or "birth"
CandidateDays(df) ==
    { DayOf(df.rows[r][i]) :
        r \in 1..Len(df.rows),
        i \in {j \in 1..Len(df.columns) :
                 \/ Contains(Lower(df.columns[j]), pat.date)
                 \/ Contains(Lower(df.columns[j]), <<"b","i","r","t","h">>)} } \ {0}

\* build_date_range: pd.date_range from the earliest to the latest day found
\* in the first 50,000 rows of three Silver tables, the whole of 2020 when
\* none is found; the range is <<first day, last day>>
build_date_range(folder) ==
    LET days == UNION { CandidateDays(head(load_silver_data(folder, f), 50000)) :
                          f \in {tbl.customer_user, tbl.enterprise_merchant,
                                 tbl.enterprise_staff} }
    IN  IF days = {} THEN <<1, 366>>
        ELSE << CHOOSE d \in days : \A e \in days : d <= e,
                CHOOSE d \in days : \A e \in days : e <= d >>

\* the row load_date_dim derives from day n
date_row(n) ==
    << IntToStr(2020 * 10000 + MonthOf(n) * 100 + (n - DaysBefore(MonthOf(n)))),
       DateOf(n),
       IntToStr(2020),
       IntToStr((MonthOf(n) - 1) \div 3 + 1),
       IntToStr(MonthOf(n)),
       IntToStr(n - DaysBefore(MonthOf(n))) >>

date_rows(dr) ==
    DataFrame(<<gcol.date_key, gcol.full_date, gcol.year, gcol.quarter,
                gcol.month, gcol.day>>,
              [k \in 1..(dr[2] - dr[1] + 1) |-> date_row(dr[1] + k - 1)])

load_date_dim(g, folder) == to_sql(g, "date_dim", date_rows(build_date_range(folder)))

(* The fact loader.  fact is the record set in load_order_line_fact's hands *)
(* together with the exception that ended the function, if any.            *)

Fact(df) == [df |-> df, exc |-> NoExc]

\* a merge that keeps only the rows of fact with a match in right
joined_inner(f, right, names, on, how) ==
    IF f.exc # NoExc THEN f
    ELSE IF MissingCols(right, names) # <<>> \/ ~HasCol(right, on) \/ ~HasCol(f.df, on)
    THEN [f EXCEPT !.exc = "KeyError"]
    ELSE [f EXCEPT !.df = merge(f.df, Select(right, names), on, "inner")]

\* fact.merge(right[[names]], on=on, how=how): KeyError when right lacks one
\* of names or either side lacks the key
joined(f, right, names, on, how) ==
    IF f.exc # NoExc THEN f
    ELSE IF MissingCols(right, names) # <<>> \/ ~HasCol(right, on) \/ ~HasCol(f.df, on)
    THEN [f EXCEPT !.exc = "KeyError"]
    ELSE [f EXCEPT !.df = merge(f.df, Select(right, names), on, how)]

\* the same when fact has the key column; otherwise fact[key] = None
joined_if_present(f, right, names, on, key) ==
    IF f.exc # NoExc THEN f
    ELSE IF HasCol(f.df, on) THEN joined(f, right, names, on, "left")
    ELSE [f EXCEPT !.df = SetCol(f.df, key, Missing(f.df))]

\* df.columns = df.columns.str.lower(), then order_id and campaign_id cast
\* to str where they are columns
AsStrCol(df, c) ==
    IF HasCol(df, c)
    THEN SetCol(df, c, [r \in 1..Len(df.rows) |-> AsStr(df.rows[r][ColIdx(df, c)])])
    ELSE df

prepared(df) ==
    AsStrCol(AsStrCol(DataFrame([i \in 1..Len(df.columns) |-> Lower(df.columns[i])],
                                df.rows),
                      col.order_id),
             col.campaign_id)

\* step 2 of the function: lines x orders, then merchant and staff, then the
\* campaign of the order when the campaign table has rows and a campaign_id
base_joins(orders, lines, ord_merch, mkt_tx) ==
    LET with_merchant ==
            joined(joined(Fact(lines), orders, orders.columns, col.order_id, "inner"),
                   ord_merch, <<col.order_id, col.merchant_id, col.staff_id>>,
                   col.order_id, "left")
    IN  IF ~empty(mkt_tx) /\ HasCol(mkt_tx, col.campaign_id)
        THEN joined(with_merchant, mkt_tx, <<col.order_id, col.campaign_id>>,
                    col.order_id, "left")
        ELSE with_merchant

\* steps 3 and 4: the natural keys mapped to the surrogate keys read from
\* the dimension tables
key_maps(f, tables) ==
    joined_if_present(
        joined(
            joined(
                joined_if_present(
                    joined(f, tables["user_dim"], <<gcol.user_key, col.user_id>>,
                           col.user_id, "left"),
                    tables["product_dim"], <<gcol.product_key, col.product_id>>,
                    col.product_id, gcol.product_key),
                tables["merchant_dim"], <<gcol.merchant_key, col.merchant_id>>,
                col.merchant_id, "left"),
            tables["staff_dim"], <<gcol.staff_key, col.staff_id>>, col.staff_id, "left"),
        AsStrCol(Select(tables["campaign_dim"], <<gcol.campaign_key, col.campaign_id>>),
                 col.campaign_id),
        <<gcol.campaign_key, col.campaign_id>>, col.campaign_id, gcol.campaign_key)

\* pd.to_datetime(cell, errors="coerce").date()
AsDate(v) == IF DayOf(v) = 0 THEN NULL ELSE DateOf(DayOf(v))

\* step 5: the date key of the order's transaction date
order_date_key(f, tables) ==
    IF f.exc # NoExc THEN f
    ELSE IF ~HasCol(f.df, gcol.transaction_date) THEN [f EXCEPT !.exc = "KeyError"]
    ELSE [f EXCEPT !.df =
            rename(merge(SetCol(f.df, gcol.order_date,
                                [r \in 1..Len(f.df.rows) |->
                                    AsDate(f.df.rows[r][ColIdx(f.df, gcol.transaction_date)])]),
                         rename(SetCol(Select(tables["date_dim"],
                                              <<gcol.date_key, gcol.full_date>>),
                                       gcol.full_date,
                                       [r \in 1..Len(tables["date_dim"].rows) |->
                                           AsDate(tables["date_dim"].rows[r]
                                                    [ColIdx(tables["date_dim"], gcol.full_date)])]),
                                gcol.full_date :> gcol.order_date),
                         gcol.order_date, "left"),
                   gcol.date_key :> gcol.order_date_key)]

\* pd.to_numeric(fact.get(c), errors="coerce"): missing cells when fact has
\* no column c
Numeric(df, c) ==
    IF HasCol(df, c)
    THEN [r \in 1..Len(df.rows) |-> Coerce(df.rows[r][ColIdx(df, c)], "numeric")]
    ELSE Missing(df)

Times(a, b) == IF a = NULL \/ b = NULL THEN NULL ELSE IntToStr(ToInt(a) * ToInt(b))

\* step 6: quantity, unit_price and their product
amounts(f) ==
    IF f.exc # NoExc THEN f
    ELSE [f EXCEPT !.df =
            SetCol(SetCol(SetCol(f.df, col.quantity, Numeric(f.df, col.quantity)),
                          col.unit_price, Numeric(f.df, col.price)),
                   gcol.line_amount,
                   [r \in 1..Len(f.df.rows) |->
                       Times(Numeric(f.df, col.quantity)[r], Numeric(f.df, col.price)[r])])]

\* step 7: groupby("order_id").cumcount() + 1, as text
order_line_ids(f) ==
    IF f.exc # NoExc THEN f
    ELSE [f EXCEPT !.df =
            SetCol(f.df, gcol.order_line_id,
                   [r \in 1..Len(f.df.rows) |->
                       IntToStr(1 + Cardinality({q \in 1..(r - 1) :
                                   f.df.rows[q][ColIdx(f.df, col.order_id)]
                                      = f.df.rows[r][ColIdx(f.df, col.order_id)]}))])]

fact_columns ==
    <<col.order_id, gcol.order_line_id, gcol.user_key, gcol.product_key,
      gcol.merchant_key, gcol.staff_key, gcol.campaign_key, gcol.order_date_key,
      col.quantity, gcol.line_amount>>

\* step 8: the projection
fact_final(f) ==
    IF f.exc # NoExc THEN f
    ELSE IF MissingCols(f.df, fact_columns) # <<>> THEN [f EXCEPT !.exc = "KeyError"]
    ELSE [f EXCEPT !.df = Select(f.df, fact_columns)]

\* the record set the function builds from the four Silver tables and the
\* dimension tables
assembled(orders, lines, ord_merch, mkt_tx, tables) ==
    fact_final(order_line_ids(amounts(order_date_key(
        key_maps(base_joins(prepared(orders), prepared(lines), prepared(ord_merch),
                            prepared(mkt_tx)),
                 tables),
        tables))))

\* its end: the append, or the exception
appended(g, f) ==
    IF f.exc # NoExc THEN Fail(g, f.exc) ELSE to_sql(g, "order_line_fact", f.df)

\* load_order_line_fact.  A Silver table that could not be read is
\* pd.DataFrame(): from pandas 2 on its columns are a RangeIndex, which has
\* no .str accessor
load_order_line_fact(g, folder) ==
    IF empty(load_silver_data(folder, tbl.operations_orders))
       \/ empty(load_silver_data(folder, tbl.operations_line_items))
    THEN g
    ELSE IF g.pandas >= 2
            /\ \E f \in {tbl.enterprise_order_merchant_tx,
                         tbl.marketing_transactional_campaign} :
                  load_silver_data(folder, f).columns = <<>>
    THEN Fail(g, "AttributeError")
    ELSE appended(g, assembled(load_silver_data(folder, tbl.operations_orders),
                               load_silver_data(folder, tbl.operations_line_items),
                               load_silver_data(folder, tbl.enterprise_order_merchant_tx),
                               load_silver_data(folder, tbl.marketing_transactional_campaign),
                               g.tables))

(* The silver folders the loader is run over *)

MaxGoldRuns == 2     \* runs of the Gold loader over one database

\* the columns of the model's Silver tables that hold dates or numbers
TypedColumns ==
    {gcol.creation_date, col.birthdate, col.price, gcol.expiry_date,
     gcol.transaction_date, col.quantity}

\* a Silver table from the cells that matter in each row: the others are
\* missing in a typed column and a one-letter text elsewhere
SilverTable(columns, given) ==
    DataFrame(columns,
              [r \in 1..Len(given) |->
                  [i \in 1..Len(columns) |->
                      IF columns[i] \in DOMAIN given[r] THEN given[r][columns[i]]
                      ELSE IF columns[i] \in TypedColumns THEN NULL ELSE <<"x">>]])

Users ==
    SilverTable(<<col.user_id, gcol.name, gcol.creation_date, gcol.street, gcol.state,
                  gcol.city, gcol.country, col.birthdate, gcol.gender,
                  gcol.device_address, gcol.user_type>>,
                << (col.user_id :> <<"1">>) @@ (gcol.creation_date :> DateOf(5)),
                   (col.user_id :> <<"2">>) @@ (gcol.creation_date :> DateOf(7)) >>)

Jobs ==
    SilverTable(<<col.user_id, gcol.job_title, gcol.job_level>>,
                << (col.user_id :> <<"1">>) @@ (gcol.job_title :> <<"a">>),
                   (col.user_id :> <<"1">>) @@ (gcol.job_title :> <<"b">>) >>)

Products ==
    SilverTable(<<col.product_id, col.product_name, gcol.product_type, col.price>>,
                << (col.product_id :> <<"P","1">>) @@ (col.price :> <<"9">>) >>)

Merchants ==
    SilverTable(<<col.merchant_id, gcol.name, gcol.creation_date, gcol.street,
                  gcol.state, gcol.city, gcol.country, gcol.contact_number>>,
                << (col.merchant_id :> <<"M","1">>) @@ (gcol.creation_date :> DateOf(4)),
                   (col.merchant_id :> <<"M","2">>) >>)

Staff ==
    SilverTable(<<col.staff_id, gcol.name, gcol.job_level, gcol.creation_date,
                  gcol.street, gcol.state, gcol.city, gcol.country,
                  gcol.contact_number>>,
                << (col.staff_id :> <<"S","1">>) >>)

CampaignColumns ==
    <<col.campaign_id, gcol.campaign_name, gcol.campaign_description, col.discount,
      col.discount_normalized>>

\* marketing_campaign as clean_marketing writes it; it keeps the rows that
\* repeat a campaign_id
Campaigns ==
    { SilverTable(CampaignColumns, << (col.campaign_id :> <<"C","1">>) >>),
      SilverTable(CampaignColumns,
                  << (col.campaign_id :> <<"C","1">>) @@ (col.discount :> <<"5","%">>),
                     (col.campaign_id :> <<"C","1">>) @@ (col.discount :> <<"9","%">>) >>) }

Cards ==
    SilverTable(<<col.user_id, gcol.name, col.credit_card_number, gcol.bank_name>>,
                << (col.user_id :> <<"1">>) @@ (col.credit_card_number :> <<"4","1">>),
                   (col.user_id :> <<"1">>) @@ (col.credit_card_number :> <<"4","1">>) >>)

Orders ==
    SilverTable(<<col.order_id, col.user_id, gcol.transaction_date>>,
                << (col.order_id :> <<"1">>) @@ (col.user_id :> <<"1">>)
                      @@ (gcol.transaction_date :> DateOf(5)),
                   (col.order_id :> <<"2">>) @@ (col.user_id :> <<"9">>)
                      @@ (gcol.transaction_date :> DateOf(9)) >>)

LineItems ==
    SilverTable(<<col.order_id, col.product_id, col.quantity, col.price>>,
                << (col.order_id :> <<"1">>) @@ (col.product_id :> <<"P","1">>)
                      @@ (col.quantity :> <<"2">>) @@ (col.price :> <<"9">>),
                   (col.order_id :> <<"2">>) @@ (col.product_id :> <<"P","9">>)
                      @@ (col.quantity :> <<"1">>) @@ (col.price :> <<"4">>),
                   (col.order_id :> <<"3">>) @@ (col.product_id :> <<"P","1">>)
                      @@ (col.quantity :> <<"1">>) @@ (col.price :> <<"4">>) >>)

\* one row of enterprise_order_merchant_tx
Assigned(order_id, merchant_id, staff_id) ==
    (col.order_id :> order_id) @@ (col.merchant_id :> merchant_id)
        @@ (col.staff_id :> staff_id)

\* enterprise_order_merchant_tx: the merchant and staff of order 1 known to
\* the dimensions, unknown to them, or given twice (the combined file is
\* written as concatenated); NoFrame stands for a file that is not there
Associations ==
    { SilverTable(<<col.order_id, col.merchant_id, col.staff_id>>, rows) :
        rows \in { << Assigned(<<"1">>, <<"M","1">>, <<"S","1">>) >>,
                   << Assigned(<<"1">>, <<"M","9">>, <<"S","9">>) >>,
                   << Assigned(<<"1">>, <<"M","1">>, <<"S","1">>),
                      Assigned(<<"1">>, <<"M","2">>, <<"S","1">>) >> } }
        \cup {NoFrame}

\* one row of marketing_transactional_campaign
Availed(order_id, campaign_id) ==
    (col.order_id :> order_id) @@ (col.campaign_id :> campaign_id)

\* marketing_transactional_campaign: order 1 under a campaign of the
\* dimension, under an unknown one, or under two campaigns
Availments ==
    { SilverTable(<<col.order_id, col.campaign_id>>, rows) :
        rows \in { << Availed(<<"1">>, <<"C","1">>) >>,
                   << Availed(<<"1">>, <<"C","9">>) >>,
                   << Availed(<<"1">>, <<"C","1">>), Availed(<<"1">>, <<"C","2">>) >> } }
        \cup {NoFrame}

\* the folder without a file
Without(folder, names) == [f \in DOMAIN folder \ names |-> folder[f]]

\* the folder with a file written, or removed when df is NoFrame
Put(folder, name, df) ==
    IF df = NoFrame THEN Without(folder, {name}) ELSE (name :> df) @@ folder

Baseline ==
    (out_file.customer_user :> Users)
        @@ (out_file.customer_user_job :> Jobs)
        @@ (out_file.business_product :> Products)
        @@ (out_file.enterprise_merchant :> Merchants)
        @@ (out_file.enterprise_staff :> Staff)
        @@ (out_file.customer_user_credit_card :> Cards)
        @@ (out_file.operations_orders :> Orders)
        @@ (out_file.operations_line_items :> LineItems)

GoldSilvers ==
    { Put(Put(Put(Baseline, out_file.enterprise_order_merchant_tx, e),
              out_file.marketing_transactional_campaign, t),
          out_file.marketing_campaign, c) :
        e \in Associations, t \in Availments, c \in Campaigns }
      \cup { Without(Put(Put(Put(Baseline, out_file.enterprise_order_merchant_tx,
                                 CHOOSE e \in Associations : Len(e.rows) = 2),
                             out_file.marketing_transactional_campaign,
                             CHOOSE t \in Availments : Len(t.rows) = 2),
                         out_file.marketing_campaign,
                         CHOOSE c \in Campaigns : Len(c.rows) = 1),
                     names) :
               names \in { {out_file.customer_user}, {out_file.customer_user_job},
                           {out_file.business_product}, {out_file.operations_orders},
                           {out_file.customer_user_credit_card},
                           {out_file.customer_user, out_file.enterprise_merchant,
                            out_file.enterprise_staff} } }

(* The loader as a process: the script's main block, run MaxRuns times      *)
(* over one silver folder and one database.                                 *)

\* the tables before the schema exists
NoTables == << >>

\* create_production_schema: CREATE TABLE IF NOT EXISTS for each table
create_production_schema(g) ==
    [g EXCEPT !.tables = [t \in GoldTables |->
                            IF t \in DOMAIN g.tables THEN g.tables[t] ELSE NoRows(t)],
              !.identity = [t \in GoldTables |->
                            IF t \in DOMAIN g.identity THEN g.identity[t] ELSE 1]]

\* a TRUNCATE that leaves the tables as they are
truncate_nothing(g) == g

\* truncate_gold_tables: TRUNCATE ... RESTART IDENTITY CASCADE, committed
truncate_gold_tables(g) ==
    [g EXCEPT !.tables = [t \in GoldTables |-> NoRows(t)],
              !.identity = [t \in GoldTables |-> 1]]

\* the next statement of the script, unless an exception ended it
Then(g, next) == IF g.pc = "FAILED" THEN g ELSE [g EXCEPT !.pc = next]

CreateProductionSchema ==
    /\ gold.pc = "CREATE_SCHEMA"
    /\ gold' = Then(create_production_schema(gold), "TRUNCATE")
    /\ UNCHANGED vars_silver

TruncateGoldTables ==
    /\ gold.pc = "TRUNCATE"
    /\ gold' = Then(truncate_gold_tables(gold), "USER_DIM")
    /\ UNCHANGED vars_silver

LoadUserDim ==
    /\ gold.pc = "USER_DIM"
    /\ gold' = Then(load_user_dim(gold, silver), "PRODUCT_DIM")
    /\ UNCHANGED vars_silver

LoadProductDim ==
    /\ gold.pc = "PRODUCT_DIM"
    /\ gold' = Then(gold_load_product_dim(gold, silver), "MERCHANT_DIM")
    /\ UNCHANGED vars_silver

LoadMerchantDim ==
    /\ gold.pc = "MERCHANT_DIM"
    /\ gold' = Then(load_merchant_dim(gold, silver), "STAFF_DIM")
    /\ UNCHANGED vars_silver

LoadStaffDim ==
    /\ gold.pc = "STAFF_DIM"
    /\ gold' = Then(load_staff_dim(gold, silver), "CAMPAIGN_DIM")
    /\ UNCHANGED vars_silver

LoadCampaignDim ==
    /\ gold.pc = "CAMPAIGN_DIM"
    /\ gold' = Then(load_campaign_dim(gold, silver), "CREDIT_CARD_DIM")
    /\ UNCHANGED vars_silver

LoadCreditCardDim ==
    /\ gold.pc = "CREDIT_CARD_DIM"
    /\ gold' = Then(load_credit_card_dim(gold, silver), "DATE_DIM")
    /\ UNCHANGED vars_silver

LoadDateDim ==
    /\ gold.pc = "DATE_DIM"
    /\ gold' = Then(load_date_dim(gold, silver), "ORDER_LINE_FACT")
    /\ UNCHANGED vars_silver

LoadOrderLineFact ==
    /\ gold.pc = "ORDER_LINE_FACT"
    /\ gold' = Then(load_order_line_fact(gold, silver), "COMPLETE")
    /\ UNCHANGED vars_silver

\* the script is started again: a new process, the same database
RunGoldAgain ==
    /\ gold.pc \in {"COMPLETE", "FAILED"}
    /\ gold.runs < MaxGoldRuns
    /\ gold' = [gold EXCEPT !.pc = "CREATE_SCHEMA", !.exc = NoExc, !.runs = @ + 1]
    /\ UNCHANGED vars_silver

NextGold ==
    \/ CreateProductionSchema
    \/ TruncateGoldTables
    \/ LoadUserDim
    \/ LoadProductDim
    \/ LoadMerchantDim
    \/ LoadStaffDim
    \/ LoadCampaignDim
    \/ LoadCreditCardDim
    \/ LoadDateDim
    \/ LoadOrderLineFact
    \/ RunGoldAgain

InitGold ==
    /\ gold \in { [pc |-> "CREATE_SCHEMA", tables |-> NoTables, identity |-> NoTables,
                   exc |-> NoExc, runs |-> 1, pandas |-> p] : p \in {1, 2} }
    /\ silver \in GoldSilvers
    /\ call = NoCall
    /\ pc = "GOLD"
    /\ bronze = MissingFolder
    /\ bronze_files = <<>>
    /\ cursor = 0
    /\ quality_report = <<>>
    /\ operations_line_items_buffer = <<>>
    /\ report_csv = NoReport
    /\ runs = 1

SpecGold == InitGold /\ [][NextGold]_vars

----------------------------------------------------------------------------
(* Properties of the silver stage.  A file is "last routed" in a state when *)
(* it is entry cursor of bronze_files: the router has returned from it and  *)
(* from no later file of this run.                                          *)

LineItemsOut == out_file.operations_line_items

CombinedOut == out_file.enterprise_order_merchant_tx

\* the file `out` of the silver folder is written in this step
Written(out) ==
    /\ out \in DOMAIN silver'
    /\ (out \notin DOMAIN silver \/ silver'[out] # silver[out])

Logged(table, issue_type) ==
    \E i \in 1..Len(quality_report) :
        quality_report[i].table = table /\ quality_report[i].issue_type = issue_type

ProcessingErrors(qr) ==
    Cardinality({i \in 1..Len(qr) :
                    qr[i].issue_type = "PROCESSING_ERROR" /\ qr[i].severity = "ERROR"})

\* the table a normalized file name belongs to, <<>> when no cleaner takes it
OperationsTable(file) ==
    IF Contains(file, pat.order_data) THEN tbl.operations_orders
    ELSE IF Contains(file, pat.line_item) THEN tbl.operations_line_items
    ELSE IF Contains(file, pat.order_delays) THEN tbl.operations_order_delays
    ELSE <<>>

MarketingTable(file) ==
    IF Contains(file, pat.campaign_data) /\ ~Contains(file, pat.transactional)
    THEN tbl.marketing_campaign
    ELSE IF Contains(file, pat.transactional_campaign)
    THEN tbl.marketing_transactional_campaign
    ELSE <<>>

TableOf(file) ==
    IF cleaner_func(file) = "clean_business" THEN tbl.business_product
    ELSE IF cleaner_func(file) = "clean_customer" THEN customer_table(file)
    ELSE IF cleaner_func(file) = "clean_enterprise" THEN enterprise_table(file)
    ELSE IF cleaner_func(file) = "clean_operations" THEN OperationsTable(file)
    ELSE IF cleaner_func(file) = "clean_marketing" THEN MarketingTable(file)
    ELSE <<>>

\* the silver file the cleaner of the table persists
OutputOf(file) ==
    IF TableOf(file) = tbl.enterprise_order_merchant_tx THEN enterprise_tx_out(file)
    ELSE TableOf(file) \o pat.parquet

\* the declared key columns of the tables that have some (section 4.4)
DeclaredKeys(table) ==
    IF table = tbl.business_product THEN <<col.product_id>>
    ELSE IF table \in {tbl.customer_user, tbl.customer_user_job} THEN <<col.user_id>>
    ELSE IF table = tbl.customer_user_credit_card
    THEN <<col.user_id, col.credit_card_number>>
    ELSE IF table = tbl.enterprise_merchant THEN <<col.merchant_id>>
    ELSE IF table = tbl.enterprise_staff THEN <<col.staff_id>>
    ELSE IF table \in {tbl.enterprise_order_merchant_tx, tbl.operations_orders}
    THEN <<col.order_id>>
    ELSE IF table = tbl.marketing_campaign THEN <<col.campaign_id>>
    ELSE <<>>

\* the key column that is also a required column
RequiredKey(table) == Head(DeclaredKeys(table))

\* the last routed file is readable and belongs to a table with declared keys
KeyedFileRouted ==
    /\ cursor >= 1
    /\ bronze_files[cursor].readable
    /\ DeclaredKeys(TableOf(RouterName(bronze_files[cursor].name))) # <<>>

LastFile == RouterName(bronze_files[cursor].name)

LastInput == standardize(bronze_files[cursor].df)

LastOutput == silver[OutputOf(LastFile)]

\* C1: in a run whose input folder exists the steps follow one another in
\* the order discover, route (once per file), flush, combine, persist, done:
\* the flush step is entered only when every discovered file has been routed,
\* the line-item output is written by the flush step alone, the combined
\* enterprise output by the combine step alone, the report by the persist
\* step alone, and the log and the buffer change in the routing step alone.
RunOrder ==
    { <<"INIT", "DISCOVER_FILES">>,
      <<"DISCOVER_FILES", "ROUTE_AND_CLEAN">>,
      <<"DISCOVER_FILES", "FLUSH_LINE_ITEM_BUFFER">>,
      <<"ROUTE_AND_CLEAN", "FLUSH_LINE_ITEM_BUFFER">>,
      <<"FLUSH_LINE_ITEM_BUFFER", "COMBINE_MULTI_PART">>,
      <<"COMBINE_MULTI_PART", "PERSIST_QUALITY_REPORT">>,
      <<"PERSIST_QUALITY_REPORT", "DONE">>,
      <<"FLUSH_LINE_ITEM_BUFFER", "CRASHED">>,
      <<"COMBINE_MULTI_PART", "CRASHED">> }

C1_StepsInOrder ==
    [][ (bronze.exists /\ pc \notin {"DONE", "ABORTED", "CRASHED"}) =>
          /\ (pc' # pc => <<pc, pc'>> \in RunOrder)
          /\ (pc' = "FLUSH_LINE_ITEM_BUFFER" => cursor' = Len(bronze_files'))
          /\ (pc = "ROUTE_AND_CLEAN" /\ cursor' # cursor => cursor' = cursor + 1)
          /\ (Written(LineItemsOut) => pc = "FLUSH_LINE_ITEM_BUFFER")
          /\ (Written(CombinedOut) => pc = "COMBINE_MULTI_PART")
          /\ (report_csv' # report_csv => pc = "PERSIST_QUALITY_REPORT")
          /\ (quality_report' # quality_report => pc = "ROUTE_AND_CLEAN")
          /\ (operations_line_items_buffer' # operations_line_items_buffer
                 => pc = "ROUTE_AND_CLEAN") ]_vars

\* a run of two files that flushed line items, combined transaction parts
\* and persisted a report
C1_Witness ==
    /\ pc = "DONE"
    /\ cursor = 2
    /\ LineItemsOut \in DOMAIN silver
    /\ CombinedOut \in DOMAIN silver
    /\ report_csv.written

\* C2: whenever the input folder exists no failure of a file ends the run
\* before the report is persisted: the run is never left by an exception
\* (CRASHED), so it goes on to PERSIST_QUALITY_REPORT and DONE.
C2_NoFailureAbortsTheBatch == bronze.exists => pc # "CRASHED"

\* what the try block of the router does with the file about to be routed
NextTry ==
    route_try(bronze_files[cursor + 1], RouterName(bronze_files[cursor + 1].name),
              silver, quality_report, operations_line_items_buffer)

\* C3: when reading the routed file or its cleaner raises, the router appends
\* exactly one PROCESSING_ERROR entry at ERROR severity (the last entry of
\* the log, under the file's normalized name), the run is not left by the
\* exception, and the next file of the list, if any, is routed next.
C3_RouterCatches ==
    [][ (pc = "ROUTE_AND_CLEAN" /\ NextTry.exc # NoExc) =>
          /\ ProcessingErrors(quality_report') = ProcessingErrors(quality_report) + 1
          /\ quality_report'[Len(quality_report')].issue_type = "PROCESSING_ERROR"
          /\ quality_report'[Len(quality_report')].severity = "ERROR"
          /\ quality_report'[Len(quality_report')].table
                 = RouterName(bronze_files[cursor + 1].name)
          /\ pc' # "CRASHED"
          /\ cursor' = cursor + 1
          /\ (cursor' < Len(bronze_files) => pc' = "ROUTE_AND_CLEAN") ]_vars

\* the cleaner of the first file raised, the error was logged under the
\* file's name and the second file has been routed
C3_Witness ==
    /\ cursor = 2
    /\ bronze_files[1].readable
    /\ Logged(RouterName(bronze_files[1].name), "PROCESSING_ERROR")

\* C4: while the input folder is missing the run only ends (ABORTED): no
\* file is listed or routed, the log and the buffer are unchanged, and
\* nothing is written to the silver folder or to the report.
C4_MissingFolderAborts ==
    [][ ~bronze.exists =>
          /\ pc' \in {"INIT", "ABORTED"}
          /\ UNCHANGED << silver, quality_report, operations_line_items_buffer,
                          report_csv, bronze_files, cursor >> ]_vars

\* a second call that found the folder gone, with a log and a buffer to lose
C4_Witness ==
    /\ pc = "ABORTED"
    /\ runs = 2
    /\ quality_report # <<>>
    /\ operations_line_items_buffer # <<>>

\* a line-item prices file: order_id, price and quantity, neither product_id
\* nor a product name, no missing order_id
PricesFile(e) ==
    /\ e.readable
    /\ TableOf(RouterName(e.name)) = tbl.operations_line_items
    /\ ~HasCol(_rename_operations_columns(standardize(e.df)), col.product_id)
    /\ ~HasCol(standardize(e.df), col.product_name)
    /\ FirstPresent(standardize(e.df), product_name_alts) = <<>>
    /\ \A x \in {col.order_id, col.quantity, col.price} : HasCol(standardize(e.df), x)
    /\ NULL \notin Range(Column(standardize(e.df), col.order_id))
    /\ e.df.rows # <<>>

RECURSIVE RowTotal(_)
RowTotal(files) ==
    IF files = <<>> THEN 0 ELSE Len(Head(files).df.rows) + RowTotal(Tail(files))

\* C5: after the flush of a first run whose files are two or more line-item
\* prices files with order_ids that no two files share, the line-item output
\* exists, has as many rows as the files together, and each row has a
\* product_id.
C5_PricesFilesAllFlushed ==
    ( /\ runs = 1
      /\ pc \in {"COMBINE_MULTI_PART", "PERSIST_QUALITY_REPORT", "DONE"}
      /\ Len(bronze_files) >= 2
      /\ \A i \in 1..Len(bronze_files) : PricesFile(bronze_files[i])
      /\ \A i, j \in 1..Len(bronze_files) :
            i # j => Range(Column(standardize(bronze_files[i].df), col.order_id))
                       \cap Range(Column(standardize(bronze_files[j].df), col.order_id))
                       = {} )
    => /\ LineItemsOut \in DOMAIN silver
       /\ Len(silver[LineItemsOut].rows) = RowTotal(bronze_files)
       /\ HasCol(silver[LineItemsOut], col.product_id)
       /\ NULL \notin Range(Column(silver[LineItemsOut], col.product_id))

\* C6: at the start of every run, a later run of the same process included,
\* the quality log and the line-item buffer are empty.
C6_GlobalsEmptyAtRunStart ==
    pc = "INIT" => quality_report = <<>> /\ operations_line_items_buffer = <<>>

\* the rows of df whose cells at positions ix are not missing and repeat no
\* earlier row's
FirstNonNull(df, ix) ==
    LET Keep(r) == /\ \A k \in 1..Len(ix) : df.rows[r][ix[k]] # NULL
                   /\ \A q \in 1..(r - 1) : Cells(df.rows[q], ix) # Cells(df.rows[r], ix)
    IN  Cells(df.rows, SortedIdx({r \in 1..Len(df.rows) : Keep(r)}))

Repeats(values) ==
    \E i, j \in 1..Len(values) : i # j /\ values[i] = values[j] /\ values[i] # NULL

\* C7: once a readable business_product file with a product_id column is
\* routed, the output holds exactly its rows with a product_id, the first of
\* each product_id; the log has a NULL_VALUES entry for business_product if
\* a product_id was missing and a DUPLICATES entry if one was repeated.
C7_BusinessCleaned ==
    ( /\ cursor >= 1
      /\ bronze_files[cursor].readable
      /\ TableOf(LastFile) = tbl.business_product
      /\ HasCol(LastInput, col.product_id) )
    => /\ out_file.business_product \in DOMAIN silver
       /\ silver[out_file.business_product].rows
              = FirstNonNull(LastInput, <<ColIdx(LastInput, col.product_id)>>)
       /\ (NULL \in Range(Column(LastInput, col.product_id))
              => Logged(tbl.business_product, "NULL_VALUES"))
       /\ (Repeats(Column(LastInput, col.product_id))
              => Logged(tbl.business_product, "DUPLICATES"))

\* the positions of the declared key columns of the last routed file's table
\* in its output
KeyIdx == ColIdxs(LastOutput, Range(DeclaredKeys(TableOf(LastFile))))

\* the declared key columns came with the input
KeysInInput ==
    /\ \A i \in 1..Len(DeclaredKeys(TableOf(LastFile))) :
          HasCol(LastOutput, DeclaredKeys(TableOf(LastFile))[i])
    /\ \A k \in 1..Len(KeyIdx) : KeyIdx[k] <= Len(LastInput.columns)

\* output row o is the first input row with its key tuple (a cell may have
\* been coerced to a missing value since)
IsFirstOccurrence(o) ==
    \E r \in 1..Len(LastInput.rows) :
        /\ Cells(LastInput.rows[r], KeyIdx) = Cells(LastOutput.rows[o], KeyIdx)
        /\ \A q \in 1..(r - 1) :
              Cells(LastInput.rows[q], KeyIdx) # Cells(LastOutput.rows[o], KeyIdx)
        /\ \A j \in 1..Len(LastInput.columns) :
              LastOutput.rows[o][j] \in {LastInput.rows[r][j], NULL}

\* C8: the output persisted for a file of a table with declared key columns,
\* the key columns being present, has no two rows with the same key tuple,
\* and each of its rows is the first row of the input with that key tuple.
C8_KeysUnique ==
    (KeyedFileRouted /\ OutputOf(LastFile) \in DOMAIN silver /\ KeysInInput)
    => /\ \A o, p \in 1..Len(LastOutput.rows) :
             o # p => Cells(LastOutput.rows[o], KeyIdx) # Cells(LastOutput.rows[p], KeyIdx)
       /\ \A o \in 1..Len(LastOutput.rows) : IsFirstOccurrence(o)

\* C9: the output persisted for a file of a table with a required key column
\* that the input holds has no row with a missing value in that column.
C9_NoNullRequiredKey ==
    ( /\ KeyedFileRouted
      /\ OutputOf(LastFile) \in DOMAIN silver
      /\ HasCol(LastInput, RequiredKey(TableOf(LastFile)))
      /\ HasCol(LastOutput, RequiredKey(TableOf(LastFile))) )
    => NULL \notin Range(Column(LastOutput, RequiredKey(TableOf(LastFile))))

\* C10: a readable file routed to the cleaner of a table never ends as a
\* PROCESSING_ERROR whatever its contents lack, and its output is persisted
\* (buffered, for line items).
C10_QualityProblemsNeverRaise ==
    ( /\ cursor >= 1
      /\ bronze_files[cursor].readable
      /\ TableOf(LastFile) # <<>> )
    => /\ ~Logged(LastFile, "PROCESSING_ERROR")
       /\ IF TableOf(LastFile) = tbl.operations_line_items
          THEN operations_line_items_buffer # <<>>
          ELSE OutputOf(LastFile) \in DOMAIN silver


\* the parts of the multi-part table in the input folder, in the order listed
Parts == SelectSeq(bronze.files, LAMBDA e : GlobMatch(e.name))

\* the output clean_enterprise writes for a part
PartOutput(e) == enterprise_tx_out(RouterName(e.name))

\* the rows of the outputs of the first k parts, one part after the other
RECURSIVE PartRows(_)
PartRows(k) ==
    IF k = 0 THEN <<>> ELSE PartRows(k - 1) \o silver[PartOutput(Parts[k])].rows

\* C11: once the combiner has run, the rows of the combined
\* enterprise_order_merchant_tx output are exactly the rows of the outputs
\* clean_enterprise wrote for the parts, one part after the other.
C11_CombinedIsConcatOfCleanedParts ==
    ( /\ pc \in {"PERSIST_QUALITY_REPORT", "DONE"}
      /\ runs = 1
      /\ Parts # <<>>
      /\ CombinedOut \in DOMAIN silver
      /\ \A k \in 1..Len(Parts) : PartOutput(Parts[k]) \in DOMAIN silver )
    => silver[CombinedOut].rows = PartRows(Len(Parts))

\* the prefixes the router tests, in the order it tests them
Precedence ==
    << [prefix |-> pat.business_, func |-> "clean_business"],
       [prefix |-> pat.customer_management_, func |-> "clean_customer"],
       [prefix |-> pat.customer_, func |-> "clean_customer"],
       [prefix |-> pat.enterprise_, func |-> "clean_enterprise"],
       [prefix |-> pat.operations_, func |-> "clean_operations"],
       [prefix |-> pat.marketing_, func |-> "clean_marketing"] >>

Matching(file) == {i \in DOMAIN Precedence : StartsWith(file, Precedence[i].prefix)}

FirstMatch(file) ==
    IF Matching(file) = {} THEN "unknown"
    ELSE Precedence[CHOOSE i \in Matching(file) : \A j \in Matching(file) : i <= j].func

\* the word every table and output name of a cleaner's department starts with
Department ==
    [ clean_business |-> pat.business_, clean_customer |-> pat.customer_,
      clean_enterprise |-> pat.enterprise_, clean_operations |-> pat.operations_,
      clean_marketing |-> pat.marketing_ ]

\* the routing step wrote, logged and buffered for that department alone
WorkOf(func) ==
    /\ \A o \in DOMAIN silver' : Written(o) => StartsWith(o, Department[func])
    /\ \A i \in (Len(quality_report) + 1)..Len(quality_report') :
          StartsWith(quality_report'[i].table, Department[func])
    /\ (operations_line_items_buffer' # operations_line_items_buffer
          => func = "clean_operations")

\* the routing step of a file under its normalized name, func being the
\* cleaner of the first matching prefix
RoutedByPrefix(entry, file, func) ==
    /\ file = Lower(file)
    /\ ~Contains(file, <<" ">>)
    /\ cleaner_func(file) = func
    /\ (entry.readable /\ func # "unknown") => WorkOf(func)
    /\ (entry.readable /\ func = "unknown") =>
          /\ UNCHANGED << silver, quality_report, operations_line_items_buffer >>
          /\ cursor' = cursor + 1

RoutedNext(file) == RoutedByPrefix(bronze_files[cursor + 1], file, FirstMatch(file))

\* C12: the router works on the lower-cased base name with the department
\* marker and the blanks turned into underscores, calls the cleaner of the
\* first matching prefix in the order business_, customer_management_ /
\* customer_, enterprise_, operations_, marketing_, and skips a readable
\* file that matches none: nothing is written, buffered or logged for it.
C12_RouterSelectsByPrefix ==
    [][ (pc = "ROUTE_AND_CLEAN" /\ cursor < Len(bronze_files))
          => RoutedNext(RouterName(bronze_files[cursor + 1].name)) ]_vars

\* a readable file of no department has been routed, after a file whose
\* name held capitals and the department marker
C12_Witness ==
    /\ cursor = 2
    /\ bronze_files[1].name # RouterName(bronze_files[1].name)
    /\ cleaner_func(RouterName(bronze_files[1].name)) = "clean_business"
    /\ bronze_files[2].readable
    /\ cleaner_func(RouterName(bronze_files[2].name)) = "unknown"

IsPrefix(s, t) == Len(s) <= Len(t) /\ SubSeq(t, 1, Len(s)) = s

\* C13: every step of a run -- listing, routing with its cleaners and
\* validators, the flush, the combiner, saving the report, and a further run
\* in the same process -- leaves the entries the quality log already holds
\* in place and in order: the log before the step is a prefix of the log
\* after it, and saving the report writes the log's entries as they are.
C13_QualityLogAppendOnly ==
    [][ /\ IsPrefix(quality_report, quality_report')
        /\ (report_csv' # report_csv => report_csv'.rows = quality_report) ]_vars

\* a second file has added entries to a log that held some, and the report
\* has been saved
C13_Witness ==
    /\ pc = "DONE"
    /\ report_csv.written
    /\ Len(quality_report) >= 3
    /\ \E i, j \in 1..Len(quality_report) :
          i < j /\ quality_report[i].table # quality_report[j].table

\* the issue kinds of the quality issue's enumeration
IssueKinds ==
    {"MISSING_COLUMNS", "NULL_VALUES", "DUPLICATES", "INVALID_DATETIME",
     "INVALID_NUMERIC", "PROCESSING_ERROR"}

\* C14: the issue kind of every entry of the quality log is one of
\* MISSING_COLUMNS, NULL_VALUES, DUPLICATES, INVALID_DATETIME,
\* INVALID_NUMERIC, PROCESSING_ERROR.
C14_IssueKindsEnumerated ==
    \A i \in 1..Len(quality_report) : quality_report[i].issue_type \in IssueKinds

\* the canonical table names
TableNames == {tbl[t] : t \in DOMAIN tbl}

\* C15: the table field of every entry of the quality log, the entries the
\* router records for a failed file included, is a canonical table name.
C15_LogKeyedByTableName ==
    \A i \in 1..Len(quality_report) : quality_report[i].table \in TableNames

\* the names of a list that are no column of the record set, in list order
Absent(df, names) ==
    SelectSeq(names, LAMBDA x : \A i \in 1..Len(df.columns) : df.columns[i] # x)

\* the entries the call added to the log
Added == SubSeq(quality_report, Len(call.before) + 1, Len(quality_report))

\* the call left the log's earlier entries alone and returned its record set
\* as it received it
OnlyAppended ==
    /\ IsPrefix(call.before, quality_report)
    /\ call.exc = NoExc
    /\ call.out = call.df

\* C16: validate_required_columns appends one MISSING_COLUMNS entry at ERROR
\* severity that lists all the missing names when a required column is
\* absent, appends nothing when none is, and in both cases returns the
\* record set with the columns and the rows it received.
C16_ValidateRequiredColumns ==
    call.op = "validate_required_columns" =>
        /\ OnlyAppended
        /\ Added = IF Absent(call.df, call.key_cols) = <<>> THEN <<>>
                   ELSE <<[table |-> CallTable, issue_type |-> "MISSING_COLUMNS",
                           details |-> [missing |-> Absent(call.df, call.key_cols)],
                           severity |-> "ERROR"]>>

\* two required columns were missing from a record set with rows, and the
\* log held an entry before the call
C16_Witness ==
    /\ call.op = "validate_required_columns"
    /\ Len(Absent(call.df, call.key_cols)) = 2
    /\ call.df.rows # <<>>
    /\ call.before # <<>>
    /\ Len(quality_report) = Len(call.before) + 1

\* every key column of the call is a column of its record set
KeysPresent == Absent(call.df, call.key_cols) = <<>>

\* the key tuples of the call's record set: the cells of each row under the
\* key columns
KeyTuples ==
    { Cells(call.df.rows[r], ColIdxs(call.df, Range(call.key_cols)))
      : r \in 1..Len(call.df.rows) }

\* C17: with all key columns present check_duplicates returns the number of
\* rows minus the number of distinct key tuples and appends one DUPLICATES
\* warning exactly when that number is greater than 0; with a key column
\* absent it returns 0 and appends nothing.
C17_CheckDuplicates ==
    call.op = "check_duplicates" =>
        /\ IsPrefix(call.before, quality_report)
        /\ call.exc = NoExc
        /\ call.ret = IF KeysPresent
                      THEN Len(call.df.rows) - Cardinality(KeyTuples) ELSE 0
        /\ Added = IF call.ret = 0 THEN <<>>
                   ELSE <<[table |-> CallTable, issue_type |-> "DUPLICATES",
                           details |-> [dup_count |-> call.ret,
                                        key_cols |-> call.key_cols],
                           severity |-> "WARNING"]>>

\* a record set of three rows, two of them under one key tuple of two
\* columns, one of whose cells is missing: one row is counted
C17_Witness ==
    /\ call.op = "check_duplicates"
    /\ Len(call.key_cols) = 2
    /\ KeysPresent
    /\ Len(call.df.rows) = 3
    /\ \E t \in KeyTuples : NULL \in Range(t)
    /\ call.ret = 1
    /\ Len(Added) = 1

\* the cells of the column named x
CellsOf(df, x) ==
    [r \in 1..Len(df.rows) |->
        df.rows[r][CHOOSE i \in 1..Len(df.columns) : df.columns[i] = x]]

Nulls(df, x) == Cardinality({r \in 1..Len(df.rows) : CellsOf(df, x)[r] = NULL})

\* the key columns of the call that are columns of its record set and hold
\* a missing cell, in the order of the key list
NullKeys ==
    SelectSeq(call.key_cols,
              LAMBDA x : x \notin Range(Absent(call.df, <<x>>)) /\ Nulls(call.df, x) > 0)

\* a number of tenths written with one decimal
OneDecimal(v) == IntToStr(v \div 10) \o <<".">> \o IntToStr(v % 10)

\* text is 100 * nulls / total rounded to one decimal
IsPercentage(text, nulls, total) ==
    \E v \in 0..1000 :
        /\ text = OneDecimal(v)
        /\ 2 * (1000 * nulls - v * total) <= total
        /\ 2 * (v * total - 1000 * nulls) <= total

\* C18: check_nulls, on any record set (an empty one included) and any list
\* of key columns, never fails and returns the record set unchanged; it
\* appends nothing for a key column that is absent or holds no missing
\* cell, and one NULL_VALUES warning for each key column that holds some,
\* whose percentage is 100 * nulls / total rounded to one decimal.
C18_CheckNulls ==
    call.op = "check_nulls" =>
        /\ OnlyAppended
        /\ Len(Added) = Len(NullKeys)
        /\ \A k \in 1..Len(NullKeys) :
              /\ Added[k].table = CallTable
              /\ Added[k].issue_type = "NULL_VALUES"
              /\ Added[k].severity = "WARNING"
              /\ Added[k].details.col = NullKeys[k]
              /\ Added[k].details.null_count = Nulls(call.df, NullKeys[k])
              /\ Added[k].details.total = Len(call.df.rows)
              /\ IsPercentage(Added[k].details.pct, Nulls(call.df, NullKeys[k]),
                              Len(call.df.rows))

\* the same, for the record sets whose column names differ from one another
C18_OnDistinctColumns == HasDuplicateColumns(call.df) \/ C18_CheckNulls

\* two key columns with missing cells, in one and in two rows out of three
C18_TwoWarnings ==
    /\ call.op = "check_nulls"
    /\ Len(Added) = 2
    /\ Added[1].details.pct = <<"3", "3", ".", "3">>
    /\ Added[2].details.pct = <<"6", "6", ".", "7">>

\* the positions of a name's characters that are not whitespace
Inked(name) == {i \in 1..Len(name) : name[i] \notin {" ", "\t", "\n"}}

\* a name without its leading and trailing whitespace
Trimmed(name) ==
    IF Inked(name) = {} THEN <<>>
    ELSE SubSeq(name, CHOOSE i \in Inked(name) : \A j \in Inked(name) : i <= j,
                      CHOOSE i \in Inked(name) : \A j \in Inked(name) : j <= i)

\* a character lower-cased, a space or a hyphen turned into an underscore
Canonical(ch) == IF ch \in {" ", "-"} THEN "_" ELSE LowerChar(ch)

CanonicalName(t) == [k \in 1..Len(t) |-> Canonical(t[k])]

\* C19: standardize gives each column the name that is its original name
\* trimmed and lower-cased with every space and hyphen replaced by an
\* underscore, leaves the rows as they are, and applied to its own result
\* changes nothing.
C19_StandardizeIdempotent ==
    call.op = "standardize" =>
        /\ call.exc = NoExc
        /\ quality_report = call.before
        /\ call.out.rows = call.df.rows
        /\ Len(call.out.columns) = Len(call.df.columns)
        /\ \A i \in 1..Len(call.df.columns) :
              call.out.columns[i] = CanonicalName(Trimmed(call.df.columns[i]))
        /\ standardize(call.out) = call.out

\* two columns with rows; the first name had a leading blank, a capital, a
\* hyphen and a trailing tab
C19_Witness ==
    /\ call.op = "standardize"
    /\ call.df.columns = << <<" ", "A", "-", "\t">>, raw.user_id >>
    /\ call.out.columns = << <<"a", "_">>, col.user_id >>
    /\ Len(call.out.rows) = 2

\* the row in which the text of row r of a column is seen first
FirstSeen(values, r) ==
    CHOOSE q \in 1..r :
        values[q] = values[r] /\ \A p \in 1..(q - 1) : values[p] # values[r]

\* the number of distinct texts seen before the text of row r is seen first
AppearanceRank(values, r) ==
    Cardinality({values[q] : q \in 1..(FirstSeen(values, r) - 1)} \ {NULL})

\* the only column of the call's record set: the fallback text column
OnlyColumn == CellsOf(call.df, call.df.columns[1])

\* C20: an identifier synthesized from the fallback text column gives the
\* first distinct text seen 0, the next new text 1, and so on, equal texts
\* getting equal numbers; without a fallback column the identifier of each
\* row is its zero-based position.
C20_SynthesizedIdentifier ==
    ( /\ call.op = "synthesize_campaign_id"
      /\ Absent(call.df, <<col.campaign_id>>) # <<>> )
    => /\ call.exc = NoExc
       /\ Absent(call.out, <<col.campaign_id>>) = <<>>
       /\ \A r \in 1..Len(call.df.rows) :
             CellsOf(call.out, col.campaign_id)[r]
                 = IF Len(call.df.columns) # 1 THEN IntToStr(r - 1)
                   ELSE IF OnlyColumn[r] = NULL THEN CellsOf(call.out, col.campaign_id)[r]
                   ELSE IntToStr(AppearanceRank(OnlyColumn, r))

\* the same for the record sets without a fallback column
C20_RowPositions == Len(call.df.columns) = 1 \/ C20_SynthesizedIdentifier

\* the discount text of row r of the call's record set and the label the
\* call gave it
DiscountOf(r) == CellsOf(call.df, col.discount)[r]

LabelOf(r) == CellsOf(call.out, col.discount_normalized)[r]

\* the digits of a text, in the order they stand in it
DigitsOf(text) == SelectSeq(text, LAMBDA ch : ch \in {"0","1","2","3","4","5","6","7","8","9"})

\* label is <digits>% for a non-empty run of digits that starts the digits
\* found in the text
IsLabelOf(label, text) ==
    /\ Len(label) >= 2
    /\ label[Len(label)] = "%"
    /\ SubSeq(label, 1, Len(label) - 1) = SubSeq(DigitsOf(text), 1, Len(label) - 1)
    /\ Len(label) - 1 <= Len(DigitsOf(text))

\* C21: normalize_discount_label returns a missing value exactly when the
\* discount text is missing or holds no digit, and otherwise a label
\* <digits>% made of digits found in the text; applied to a label it
\* returns the label.
C21_DiscountLabel ==
    ( /\ call.op = "discount_normalized"
      /\ Absent(call.df, <<col.discount>>) = <<>> )
    => /\ call.exc = NoExc
       /\ \A r \in 1..Len(call.df.rows) :
             /\ LabelOf(r) = NULL
                   <=> (DiscountOf(r) = NULL \/ DigitsOf(DiscountOf(r)) = <<>>)
             /\ LabelOf(r) # NULL =>
                   /\ IsLabelOf(LabelOf(r), DiscountOf(r))
                   /\ normalize_discount_label(LabelOf(r)) = LabelOf(r)

\* "15pct" has become "15%"
C21_Witness ==
    /\ call.op = "discount_normalized"
    /\ Absent(call.df, <<col.discount>>) = <<>>
    /\ DiscountOf(1) = <<"1","5","p","c","t">>
    /\ LabelOf(1) = <<"1","5","%">>

\* "N/A" has become a missing value
C21_NoDigit ==
    /\ call.op = "discount_normalized"
    /\ Absent(call.df, <<col.discount>>) = <<>>
    /\ DiscountOf(1) = <<"N","/","A">>
    /\ LabelOf(1) = NULL

\* the raw alias names and the canonical name of each
Aliases ==
    { <<col.orderid, col.order_id>>, <<col.merchantid, col.merchant_id>>,
      <<col.staffid, col.staff_id>>, <<col.userid, col.user_id>>,
      <<col.productid, col.product_id>>, <<col.prod_id, col.product_id>>,
      <<col.sku, col.product_id>>, <<col.item_id, col.product_id>>,
      <<col.campaignid, col.campaign_id>> }

Renames == {"rename_enterprise", "rename_operations", "rename_marketing"}

\* C25: the renames of a cleaner leave an alias column (orderid, merchantid,
\* staffid, userid, productid, prod_id, sku, item_id, campaignid) as it is
\* when its canonical name is already a column of the record set: an alias
\* is renamed only when the canonical name is absent.
C25_AliasKeptWhenCanonicalPresent ==
    call.op \in Renames =>
        \A i \in 1..Len(call.df.columns) : \A p \in Aliases :
            ( /\ call.df.columns[i] = p[1]
              /\ Absent(call.df, <<p[2]>>) = <<>> )
            => call.out.columns[i] = p[1]

PairwiseDistinct(names) ==
    \A i, j \in 1..Len(names) : i # j => names[i] # names[j]

\* C28: after the alias renames of a cleaner the column names are pairwise
\* distinct whenever they were before, for every combination of alias and
\* canonical columns present.
C28_RenamesKeepNamesDistinct ==
    (call.op \in Renames /\ PairwiseDistinct(call.df.columns))
        => PairwiseDistinct(call.out.columns)

\* the loop over the files, then the flush of the line-item buffer, on the
\* folder, log and buffer of c
RECURSIVE RouteAll(_, _)
RouteAll(files, c) ==
    IF files = <<>> THEN flush_line_items(Ctx(NoFrame, c.silver, c.qr, c.buf))
    ELSE RouteAll(Tail(files), cleaner(Head(files), c.silver, c.qr, c.buf))

\* the rows of a record set, each as the set of its <<column, cell>> pairs
RowSet(df) ==
    { {<<df.columns[i], df.rows[r][i]>> : i \in 1..Len(df.columns)}
      : r \in 1..Len(df.rows) }

\* the line-item rows a folder holds once a run is over
LineItemRows(folder) ==
    IF LineItemsOut \in DOMAIN folder THEN RowSet(folder[LineItemsOut]) ELSE {}

Reverse(s) == [i \in 1..Len(s) |-> s[Len(s) + 1 - i]]

\* the line-item rows of the run that is about to route the listed files in
\* the given order
FinalLineItems(files) ==
    LineItemRows(RouteAll(files, Ctx(NoFrame, silver, quality_report,
                                     operations_line_items_buffer)).silver)

\* C26: the line-item rows of the final operations_line_items output are
\* the same whether the files of the batch are routed in the order listed
\* or in the opposite order; a line-item file routed before the
\* business_product file of its batch still contributes its rows.
C26_LineItemsIndependentOfOrder ==
    (pc = "ROUTE_AND_CLEAN" /\ cursor = 0 /\ runs = 1)
        => FinalLineItems(bronze_files) = FinalLineItems(Reverse(bronze_files))

\* the (order_id, product_id) pairs of the rows of the flushed output
LineItemKeys ==
    [r \in 1..Len(silver[LineItemsOut].rows) |->
        << CellsOf(silver[LineItemsOut], col.order_id)[r],
           CellsOf(silver[LineItemsOut], col.product_id)[r] >>]

\* C27: the operations_line_items output flushed by a first run holds no
\* two rows with the same (order_id, product_id), also when its rows come
\* from different source files and when product_id was synthesized as
\* order_id + '_' + row index within each file.
C27_FlushedKeysUnique ==
    ( /\ runs = 1
      /\ LineItemsOut \in DOMAIN silver
      /\ Absent(silver[LineItemsOut], <<col.order_id, col.product_id>>) = <<>> )
    => PairwiseDistinct(LineItemKeys)

\* the file routed next is a readable line-item file of the operations
\* department
LineItemFileNext(entry, file) ==
    /\ entry.readable
    /\ cleaner_func(file) = "clean_operations"
    /\ OperationsTable(file) = tbl.operations_line_items

\* C29: the routing step of a readable line-item file appends a record set
\* to the line-item buffer or an entry to the quality log: no line-item
\* file leaves the run without its rows or a recorded issue.
C29_LineItemFileBufferedOrLogged ==
    [][ ( /\ pc = "ROUTE_AND_CLEAN"
          /\ cursor < Len(bronze_files)
          /\ LineItemFileNext(bronze_files[cursor + 1],
                              RouterName(bronze_files[cursor + 1].name)) )
        => \/ Len(operations_line_items_buffer') = Len(operations_line_items_buffer) + 1
           \/ Len(quality_report') > Len(quality_report) ]_vars

----------------------------------------------------------------------------
(* The Gold loader *)

\* C24: each dimension load appends at most one row per natural key whatever
\* its Silver table holds (the rows are de-duplicated on the natural key
\* before the append), so no run of the loader ends on the unique constraint
\* of a natural key
C24_DimensionLoadsDeduplicated ==
    gold.pc = "FAILED" => gold.exc # "UniqueViolation"

\* statement k of the script's main block and of load_dimensions_and_facts
Statement(g, k, folder) ==
    CASE k = 1 -> create_production_schema(g)
      [] k = 2 -> truncate_gold_tables(g)
      [] k = 3 -> load_user_dim(g, folder)
      [] k = 4 -> gold_load_product_dim(g, folder)
      [] k = 5 -> load_merchant_dim(g, folder)
      [] k = 6 -> load_staff_dim(g, folder)
      [] k = 7 -> load_campaign_dim(g, folder)
      [] k = 8 -> load_credit_card_dim(g, folder)
      [] k = 9 -> load_date_dim(g, folder)
      [] OTHER -> load_order_line_fact(g, folder)

\* the script run from statement k on, up to its end or its first exception
RECURSIVE RunFrom(_, _, _)
RunFrom(g, k, folder) ==
    IF g.pc = "FAILED" THEN g
    ELSE IF k > 10 THEN [g EXCEPT !.pc = "COMPLETE"]
    ELSE RunFrom(Statement(g, k, folder), k + 1, folder)

\* one run of the loader over folder on a database without the schema
RunOnce(folder, pandas) ==
    RunFrom([pc |-> "CREATE_SCHEMA", tables |-> NoTables, identity |-> NoTables,
             exc |-> NoExc, runs |-> 1, pandas |-> pandas], 1, folder)

\* the run has ended as once did
EndsAs(g, once) == g.pc = once.pc /\ g.exc = once.exc /\ g.tables = once.tables

\* the positions at which the dimensions are loaded
DimensionSteps ==
    {"USER_DIM", "PRODUCT_DIM", "MERCHANT_DIM", "STAFF_DIM", "CAMPAIGN_DIM",
     "CREDIT_CARD_DIM", "DATE_DIM"}

\* C23: a run of the loader over the same Silver tables leaves the gold
\* tables as a single run on a fresh database does, however often it ran
\* before: every table is empty when the first dimension load starts, so no
\* earlier row survives, and the fact table is still empty while the
\* dimensions are loaded and when the fact load starts
C23_RerunLeavesSameRows ==
    /\ gold.pc \in {"COMPLETE", "FAILED"} => EndsAs(gold, RunOnce(silver, gold.pandas))
    /\ gold.pc = "USER_DIM" => \A t \in GoldTables : gold.tables[t] = NoRows(t)
    /\ gold.pc \in DimensionSteps \cup {"ORDER_LINE_FACT"}
          => gold.tables["order_line_fact"].rows = << >>

\* a second run that ended with dimension and fact rows loaded
C23_Witness ==
    /\ gold.runs = 2
    /\ gold.pc = "COMPLETE"
    /\ gold.tables["order_line_fact"].rows # << >>
    /\ gold.tables["campaign_dim"].rows # << >>

\* the cell of row r of df in column c
At(df, r, c) == df.rows[r][ColIdx(df, c)]

\* the surrogate key a dimension table gives a natural key: the identity
\* value of the row that holds it, NULL when no row does
KeyOf(table, id_col, id) ==
    IF \E q \in 1..Len(table.rows) : At(table, q, id_col) = id
    THEN table.rows[CHOOSE q \in 1..Len(table.rows) : At(table, q, id_col) = id][1]
    ELSE NULL

\* the keys of the values right gives order id in column id_col, the missing
\* key alone when right has no row for the order
KeysVia(right, order_id, id_col, table) ==
    IF \E a \in 1..Len(right.rows) : At(right, a, col.order_id) = order_id
    THEN { KeyOf(table, id_col, At(right, a, id_col)) :
             a \in {b \in 1..Len(right.rows) : At(right, b, col.order_id) = order_id} }
    ELSE {NULL}

\* a fact row for line l of lines and order o of orders: their order id, the
\* line's quantity, the keys of the order's user and of the line's product,
\* and a key of a merchant, of a staff member and of a campaign of the order,
\* each of them NULL where the dimension has no row
FactRowFor(fact, f, lines, l, orders, o, folder, tables) ==
    /\ At(fact, f, col.order_id) = At(lines, l, col.order_id)
    /\ At(fact, f, col.quantity) = At(lines, l, col.quantity)
    /\ At(fact, f, gcol.user_key)
          = KeyOf(tables["user_dim"], col.user_id, At(orders, o, col.user_id))
    /\ At(fact, f, gcol.product_key)
          = KeyOf(tables["product_dim"], col.product_id, At(lines, l, col.product_id))
    /\ At(fact, f, gcol.merchant_key)
          \in KeysVia(folder[out_file.enterprise_order_merchant_tx],
                      At(lines, l, col.order_id), col.merchant_id, tables["merchant_dim"])
    /\ At(fact, f, gcol.staff_key)
          \in KeysVia(folder[out_file.enterprise_order_merchant_tx],
                      At(lines, l, col.order_id), col.staff_id, tables["staff_dim"])
    /\ At(fact, f, gcol.campaign_key)
          \in (IF out_file.marketing_transactional_campaign \in DOMAIN folder
               THEN KeysVia(folder[out_file.marketing_transactional_campaign],
                            At(lines, l, col.order_id), col.campaign_id,
                            tables["campaign_dim"])
               ELSE {NULL})

\* the pairs of a line item and an order with the same order id
MatchingPairs(lines, orders) ==
    { p \in (1..Len(lines.rows)) \X (1..Len(orders.rows)) :
        At(lines, p[1], col.order_id) = At(orders, p[2], col.order_id) }

\* every matching pair has its fact row, and no order has fewer fact rows
\* than matching pairs
NoneDropped(fact, lines, orders, folder, tables) ==
    /\ \A p \in MatchingPairs(lines, orders) :
          \E f \in 1..Len(fact.rows) :
              FactRowFor(fact, f, lines, p[1], orders, p[2], folder, tables)
    /\ \A o \in 1..Len(orders.rows) :
          Cardinality({f \in 1..Len(fact.rows) :
                          At(fact, f, col.order_id) = At(orders, o, col.order_id)})
            >= Cardinality({p \in MatchingPairs(lines, orders) :
                              At(lines, p[1], col.order_id) = At(orders, o, col.order_id)})

\* C22: when the fact load has run to its end, every order line that matches
\* an order has a fact row, also when its merchant, staff member, campaign,
\* product or user has no row in the dimension: that row's surrogate key is
\* NULL and the row is kept
C22_UnmatchedReferencesKept ==
    (gold.pc = "COMPLETE"
        /\ out_file.operations_orders \in DOMAIN silver
        /\ out_file.operations_line_items \in DOMAIN silver)
    => NoneDropped(gold.tables["order_line_fact"],
                   silver[out_file.operations_line_items],
                   silver[out_file.operations_orders], silver, gold.tables)

\* a completed load in which order 1 is assigned to a merchant that
\* merchant_dim does not hold and its fact row has no merchant key, and the
\* fact row of order 2 has no user key
C22_Witness ==
    /\ gold.pc = "COMPLETE"
    /\ out_file.enterprise_order_merchant_tx \in DOMAIN silver
    /\ \E a \in 1..Len(silver[out_file.enterprise_order_merchant_tx].rows) :
          /\ At(silver[out_file.enterprise_order_merchant_tx], a, col.order_id) = <<"1">>
          /\ KeyOf(gold.tables["merchant_dim"], col.merchant_id,
                   At(silver[out_file.enterprise_order_merchant_tx], a, col.merchant_id))
                = NULL
    /\ \E f \in 1..Len(gold.tables["order_line_fact"].rows) :
          /\ At(gold.tables["order_line_fact"], f, col.order_id) = <<"1">>
          /\ At(gold.tables["order_line_fact"], f, gcol.merchant_key) = NULL
    /\ \E f \in 1..Len(gold.tables["order_line_fact"].rows) :
          /\ At(gold.tables["order_line_fact"], f, col.order_id) = <<"2">>
          /\ At(gold.tables["order_line_fact"], f, gcol.user_key) = NULL

\* the order_line_id values of the fact rows of an order are 1..k, each once
NumberedPerOrder(fact) ==
    \A f \in 1..Len(fact.rows) :
        LET same == {q \in 1..Len(fact.rows) :
                        At(fact, q, col.order_id) = At(fact, f, col.order_id)}
        IN  { At(fact, q, gcol.order_line_id) : q \in same }
                = { IntToStr(k) : k \in 1..Cardinality(same) }

\* C30: a completed fact load holds exactly one fact row for each pair of a
\* line item and a matching order (the left joins to the merchant and staff
\* association, to the transactional campaign table and to the key maps add
\* no row), and the order_line_id values of an order are 1..k without repeats
C30_OneFactRowPerOrderLine ==
    (gold.pc = "COMPLETE"
        /\ out_file.operations_orders \in DOMAIN silver
        /\ out_file.operations_line_items \in DOMAIN silver)
    => /\ Len(gold.tables["order_line_fact"].rows)
            = Cardinality(MatchingPairs(silver[out_file.operations_line_items],
                                        silver[out_file.operations_orders]))
       /\ NumberedPerOrder(gold.tables["order_line_fact"])

====
